---- MODULE Spec2Model ----
(***************************************************************************)
(* Verification model of the maritime assistant backend:                   *)
(*   - classify_intent and the /api/chat dispatcher  (backend/main.py)     *)
(*   - the TTL caches of the weather and LLM managers (backend/main.py,    *)
(*     backend/apis/weather_api.py, backend/apis/llm_api.py)               *)
(*   - CargoMatchingAgent      (backend/agents/cargo_matching.py)          *)
(*   - VoyagePlannerAgent      (backend/agents/voyage_planner.py)          *)
(*   - PDAManagementAgent      (backend/agents/pda_management.py)          *)
(*                                                                         *)
(* Numbers: confidences are in hundredths (0.98 -> 98); money of the       *)
(* voyage planner is in cents; PDA line items are in 1/10000; drafts and   *)
(* multipliers are in tenths.  Each unit is stated where it is used.       *)
(***************************************************************************)
EXTENDS Integers, Sequences, FiniteSets, TLC

VARIABLES
    request,      \* chat: the ChatRequest being answered (message, conversation_context)
    response,     \* chat: the ChatResponse returned
    classified,   \* chat: the handler's locals (intent, confidence) after classify_intent
    branch,       \* chat: the branch of the if/elif chain that produced the response
    cargoRequest, \* cargo matcher: the parsed request (cargo_type, quantity)
    matches,      \* cargo matcher: the list returned by _match_cargo_vessels
    cargoPc,      \* cargo matcher: position in process() ("idle", "parsed", "matched")
    cargoResult,  \* cargo matcher: the dict returned by process()
    now,          \* caches: datetime.now().timestamp(), in seconds
    cache,        \* caches: self.cache of the weather and the LLM manager
    calls,        \* caches: the calls of get_weather / generate_response in progress or returned
    fetches,      \* caches: number of answers the external adapters have given
    voyageRequest,\* voyage planner: the dict returned by _parse_voyage_request
    bunker,       \* what getBunkerPrice() did during the call of an agent
    plan,         \* voyage planner: the dict returned by _plan_voyage
    voyagePc,     \* voyage planner: position in process() ("idle", "received",
                  \* "parsed", "planned", "returned")
    voyageCall,   \* voyage planner: the message given to process() and the ports
                  \* the entity extractor knows
    voyageResult, \* voyage planner: the dict returned by process()
    pdaRequest,   \* PDA agent: the dict returned by _parse_pda_request
    estimates,    \* PDA agent: the dict returned by _estimate_pda_costs
    pdaPc,        \* PDA agent: position in process() ("idle", "parsed", "estimated")
    portRequest,  \* port intelligence: the dict returned by _parse_port_request
    portResult,   \* port intelligence: the dict returned by process()
    portPc,       \* port intelligence: position in process() ("idle", "parsed", "returned")
    marketRequest,      \* market insights: the dict returned by _parse_market_request
    marketResult,       \* market insights: the dict returned by the last process()
    freight_benchmarks, \* market insights: self.freight_benchmarks
    marketPc,           \* market insights: "absent" before the agent is constructed, then "ready"
    is_updating,        \* AIS manager: self.is_updating
    loopPc,             \* AIS manager: position of each start_continuous_updates coroutine
    rounds,             \* AIS manager: calls of update_all_vessel_positions each loop has made
    documents,          \* document analyzer: self.documents, in insertion order
    analysis_cache,     \* document analyzer: self.analysis_cache
    docClock,           \* document analyzer: datetime.now() of the last add_document
    docCall,            \* document analyzer: the last call (op, query, doc_id)
    docResult           \* document analyzer: what the last call returned

chatVars == <<request, response, classified, branch>>

cargoVars == <<cargoRequest, matches, cargoPc, cargoResult>>

cacheVars == <<now, cache, calls, fetches>>

voyageVars == <<voyageRequest, plan, voyagePc, voyageCall, voyageResult>>
pdaVars == <<pdaRequest, estimates, pdaPc>>
portVars == <<portRequest, portResult, portPc>>
marketVars == <<marketRequest, marketResult, freight_benchmarks, marketPc>>
aisVars == <<is_updating, loopPc, rounds>>
docVars == <<documents, analysis_cache, docClock, docCall, docResult>>

vars == <<request, response, classified, branch, cargoRequest, matches, cargoPc,
          cargoResult,
          now, cache, calls, fetches, voyageRequest, bunker, plan, voyagePc,
          voyageCall, voyageResult,
          pdaRequest, estimates, pdaPc, portRequest, portResult, portPc,
          marketRequest, marketResult, freight_benchmarks, marketPc,
          is_updating, loopPc, rounds,
          documents, analysis_cache, docClock, docCall, docResult>>

(***************************************************************************)
(* Bounds                                                                  *)
(***************************************************************************)
\* longest message, in words
MaxWords == 2

\* calls of start_continuous_updates
MaxLoops == 3

\* updates one loop makes
MaxRounds == 2

\* calls of add_document
MaxUploads == 3

\* latest clock value, in seconds
MaxTime == 3600

\* most answers of the external adapters
MaxFetches == 2

Min(a, b) == IF a < b THEN a ELSE b
Max(a, b) == IF a > b THEN a ELSE b

(***************************************************************************)
(* Messages.  A message is a sequence of words separated by blanks; the    *)
(* words come from a vocabulary that holds keywords of every rule, words   *)
(* that merely contain a keyword ("shipping" has "ship", "update" has      *)
(* "pda", "planning" has "planning" and "plan"), capitalised words, and a  *)
(* word with no keyword at all.                                            *)
(***************************************************************************)
Vocabulary ==
    { "Where", "vessel", "shipping", "voyage", "planning", "weather",
      "document", "analysis", "summary", "hello", "cargo", "market",
      "bunker", "port", "costs", "pda", "update", "status", "atlantic",
      "Singapore", "rotterdam", "suez" }

\* str.lower() on one word
Lower(w) ==
    CASE w = "Where"     -> "where"
      [] w = "Singapore" -> "singapore"
      [] OTHER           -> w

\* the keywords k of the program with  k in w  for a lower-cased word w
SubstringsOf(w) ==
    CASE w = "where"     -> {"where"}
      [] w = "vessel"    -> {"vessel"}
      [] w = "shipping"  -> {"ship"}
      [] w = "voyage"    -> {"voyage"}
      [] w = "planning"  -> {"planning", "plan"}
      [] w = "weather"   -> {"weather"}
      [] w = "document"  -> {"document"}
      [] w = "analysis"  -> {"analysis"}
      [] w = "summary"   -> {"summary"}
      [] w = "cargo"     -> {"cargo"}
      [] w = "market"    -> {"market"}
      [] w = "bunker"    -> {"bunker"}
      [] w = "port"      -> {"port"}
      [] w = "costs"     -> {"costs"}
      [] w = "pda"       -> {"pda"}
      [] w = "update"    -> {"pda"}
      [] w = "status"    -> {"status"}
      [] w = "atlantic"  -> {"atlantic"}
      [] w = "singapore" -> {"singapore"}
      [] w = "rotterdam" -> {"rotterdam"}
      [] w = "suez"      -> {"suez"}
      [] OTHER           -> {}

\* message.lower()
LowerMsg(message) == [i \in DOMAIN message |-> Lower(message[i])]

\* any(word in message_lower for word in words)
AnyIn(words, message_lower) ==
    \E i \in DOMAIN message_lower : SubstringsOf(message_lower[i]) \cap words # {}

Messages == UNION { [1..n -> Vocabulary] : n \in 0..MaxWords }

(***************************************************************************)
(* classify_intent                                                         *)
(***************************************************************************)
CargoWords ==
    { "cargo", "requirements", "matching", "pairing", "tonnage", "laycan",
      "voyage", "route", "singapore", "atlantic", "ocean" }
MarketWords ==
    { "bunker", "prices", "freight", "rates", "market", "trends", "analysis",
      "prediction", "outlook" }
PortWords ==
    { "port", "status", "bunker", "availability", "costs", "congestion", "charges" }
PdaWords ==
    { "pda", "costs", "disbursement", "budget", "expenses", "charges", "fees" }
TrackingWords == { "where", "position", "location", "tracking", "ais" }
VesselWords   == { "vessel", "ship", "ever given", "cosco", "msc", "maersk" }
VoyageWords   == { "voyage", "route", "suez", "cape", "planning", "plan" }
WeatherWords  == { "weather", "storm", "wind", "sea conditions" }
DocumentWords ==
    { "document", "charter", "party", "laytime", "clauses", "analyze", "summary",
      "analysis", "extract", "review", "examine" }

SpecializedAgents ==
    { "cargo_matching", "market_insights", "port_intelligence", "pda_management" }

\* the vocabulary of the sticky rule of a specialized agent
AgentWords(agent) ==
    CASE agent = "cargo_matching"    -> CargoWords
      [] agent = "market_insights"   -> MarketWords
      [] agent = "port_intelligence" -> PortWords
      [] agent = "pda_management"    -> PdaWords
      [] OTHER                       -> {}

\* a plausible slip: the document rule lacks a keyword the fallback branch
\* of chat() tests
ClassifyGeneral_NoSummary(message_lower) ==
    IF AnyIn(TrackingWords, message_lower)
    THEN [intent |-> "vessel_tracking", confidence |-> 95]
    ELSE IF AnyIn(VesselWords, message_lower)
    THEN [intent |-> "vessel_tracking", confidence |-> 90]
    ELSE IF AnyIn(VoyageWords, message_lower)
    THEN [intent |-> "voyage_planning", confidence |-> 95]
    ELSE IF AnyIn(WeatherWords, message_lower)
    THEN [intent |-> "weather", confidence |-> 90]
    ELSE IF AnyIn(DocumentWords \ {"summary"}, message_lower)
    THEN [intent |-> "document_analysis", confidence |-> 95]
    ELSE [intent |-> "general", confidence |-> 50]

\* a plausible slip: the voyage rule is tested before the two vessel rules
ClassifyGeneral_VoyageFirst(message_lower) ==
    IF AnyIn(VoyageWords, message_lower)
    THEN [intent |-> "voyage_planning", confidence |-> 95]
    ELSE IF AnyIn(TrackingWords, message_lower)
    THEN [intent |-> "vessel_tracking", confidence |-> 95]
    ELSE IF AnyIn(VesselWords, message_lower)
    THEN [intent |-> "vessel_tracking", confidence |-> 90]
    ELSE IF AnyIn(WeatherWords, message_lower)
    THEN [intent |-> "weather", confidence |-> 90]
    ELSE IF AnyIn(DocumentWords, message_lower)
    THEN [intent |-> "document_analysis", confidence |-> 95]
    ELSE [intent |-> "general", confidence |-> 50]

\* a plausible slip: the second vessel rule carries the confidence of a guess
ClassifyGeneral_LowVessel(message_lower) ==
    IF AnyIn(TrackingWords, message_lower)
    THEN [intent |-> "vessel_tracking", confidence |-> 95]
    ELSE IF AnyIn(VesselWords, message_lower)
    THEN [intent |-> "vessel_tracking", confidence |-> 50]
    ELSE IF AnyIn(VoyageWords, message_lower)
    THEN [intent |-> "voyage_planning", confidence |-> 95]
    ELSE IF AnyIn(WeatherWords, message_lower)
    THEN [intent |-> "weather", confidence |-> 90]
    ELSE IF AnyIn(DocumentWords, message_lower)
    THEN [intent |-> "document_analysis", confidence |-> 95]
    ELSE [intent |-> "general", confidence |-> 50]

\* the general part of classify_intent: the if/elif chain of lines 800-811
ClassifyGeneral(message_lower) ==
    IF AnyIn(TrackingWords, message_lower)
    THEN [intent |-> "vessel_tracking", confidence |-> 95]
    ELSE IF AnyIn(VesselWords, message_lower)
    THEN [intent |-> "vessel_tracking", confidence |-> 90]
    ELSE IF AnyIn(VoyageWords, message_lower)
    THEN [intent |-> "voyage_planning", confidence |-> 95]
    ELSE IF AnyIn(WeatherWords, message_lower)
    THEN [intent |-> "weather", confidence |-> 90]
    ELSE IF AnyIn(DocumentWords, message_lower)
    THEN [intent |-> "document_analysis", confidence |-> 95]
    ELSE [intent |-> "general", confidence |-> 50]

\* a plausible slip: the general rules are tried before the sticky rule
classify_intent_GeneralFirst(message, current_agent) ==
    LET message_lower == LowerMsg(message)
        g == ClassifyGeneral(message_lower)
    IN  IF g.intent # "general"
        THEN g
        ELSE IF current_agent \in SpecializedAgents
                /\ AnyIn(AgentWords(current_agent), message_lower)
             THEN [intent |-> current_agent, confidence |-> 98]
             ELSE g

classify_intent(message, current_agent) ==
    LET message_lower == LowerMsg(message)
    IN  IF current_agent \in SpecializedAgents
           /\ AnyIn(AgentWords(current_agent), message_lower)
        THEN [intent |-> current_agent, confidence |-> 98]
        ELSE ClassifyGeneral(message_lower)

(***************************************************************************)
(* The TTL caches of RealWeatherManager and GeminiLLMManager               *)
(***************************************************************************)
CacheNames == {"weather", "llm"}

\* cache keys: f"weather_{location.lower()}" and
\* f"llm_{hash(prompt)}_{hash(str(context))}"; two of each
CacheKeys == {"k1", "k2"}

\* the keys the callers ask for: two locations, one prompt
KeysInUse(c) ==
    IF c = "weather" THEN CacheKeys ELSE {"k1"}

\* the coroutines that may run at the same time
CallIds == {"r1", "r2"}

\* self.cache_duration
CacheDuration(c) == IF c = "weather" THEN 1800 ELSE 3600

\* values: data of the adapter's n-th answer, an error-shaped dict, None
NoEntry == [data |-> [kind |-> "none", v |-> 0], timestamp |-> -1]
NoCall  == [pc |-> "idle", cache |-> "weather", key |-> "k1", checkedAt |-> 0,
            called |-> FALSE, result |-> [kind |-> "none", v |-> 0]]

\* a plausible slip: an entry of age exactly cache_duration is still served
Fresh_Inclusive(entry, t, c) ==
    entry # NoEntry /\ t - entry.timestamp <= CacheDuration(c)

\* cache_key in self.cache and now - cached_data["timestamp"] < self.cache_duration
Fresh(entry, t, c) ==
    entry # NoEntry /\ t - entry.timestamp < CacheDuration(c)

\* what a call returns when its adapter fails: get_weather an error dict,
\* generate_response None
FailureResult(c) ==
    IF c = "weather" THEN [kind |-> "error", v |-> 0] ELSE [kind |-> "none_value", v |-> 0]

\* get_weather / generate_response up to the first await: a fresh entry is
\* returned, otherwise the call goes on to the adapter
StartCall(r, c, k) ==
    /\ calls[r].pc \in {"idle", "done"}
    /\ IF Fresh(cache[c][k], now, c)
       THEN calls' = [calls EXCEPT ![r] =
                         [pc |-> "done", cache |-> c, key |-> k, checkedAt |-> now,
                          called |-> FALSE, result |-> cache[c][k].data]]
       ELSE calls' = [calls EXCEPT ![r] =
                         [pc |-> "fetching", cache |-> c, key |-> k, checkedAt |-> now,
                          called |-> TRUE, result |-> [kind |-> "none", v |-> 0]]]
    /\ UNCHANGED <<now, cache, fetches>>
    /\ UNCHANGED chatVars
    /\ UNCHANGED cargoVars
    /\ UNCHANGED voyageVars
    /\ UNCHANGED bunker
    /\ UNCHANGED pdaVars
    /\ UNCHANGED portVars
    /\ UNCHANGED marketVars
    /\ UNCHANGED aisVars
    /\ UNCHANGED docVars

\* a plausible slip: after the adapter's answer the call looks into the
\* cache again and returns an entry another call has written meanwhile
FinishCallOk_ReturnsCached(r) ==
    /\ calls[r].pc = "fetching"
    /\ fetches < MaxFetches
    /\ fetches' = fetches + 1
    /\ LET data  == [kind |-> "ok", v |-> fetches + 1]
           entry == cache[calls[r].cache][calls[r].key]
       IN  IF Fresh(entry, now, calls[r].cache)
           THEN /\ cache' = cache
                /\ calls' = [calls EXCEPT ![r].pc = "done", ![r].result = entry.data]
           ELSE /\ cache' = [cache EXCEPT ![calls[r].cache][calls[r].key] =
                                 [data |-> data, timestamp |-> now]]
                /\ calls' = [calls EXCEPT ![r].pc = "done", ![r].result = data]
    /\ UNCHANGED now
    /\ UNCHANGED chatVars
    /\ UNCHANGED cargoVars
    /\ UNCHANGED voyageVars
    /\ UNCHANGED bunker
    /\ UNCHANGED pdaVars
    /\ UNCHANGED portVars
    /\ UNCHANGED marketVars
    /\ UNCHANGED aisVars
    /\ UNCHANGED docVars

\* the adapter answers with data: the entry is written with the time of the
\* write and the data is returned
FinishCallOk(r) ==
    /\ calls[r].pc = "fetching"
    /\ fetches < MaxFetches
    /\ fetches' = fetches + 1
    /\ LET data == [kind |-> "ok", v |-> fetches + 1]
       IN  /\ cache' = [cache EXCEPT ![calls[r].cache][calls[r].key] =
                            [data |-> data, timestamp |-> now]]
           /\ calls' = [calls EXCEPT ![r].pc = "done", ![r].result = data]
    /\ UNCHANGED now
    /\ UNCHANGED chatVars
    /\ UNCHANGED cargoVars
    /\ UNCHANGED voyageVars
    /\ UNCHANGED bunker
    /\ UNCHANGED pdaVars
    /\ UNCHANGED portVars
    /\ UNCHANGED marketVars
    /\ UNCHANGED aisVars
    /\ UNCHANGED docVars

\* generate_response: the API answers with status 200 and a body without
\* candidates; _parse_llm_response returns {"error": "No response generated"}
\* and that dict is written to the cache and returned
FinishCallNoCandidates(r) ==
    /\ calls[r].pc = "fetching"
    /\ calls[r].cache = "llm"
    /\ fetches < MaxFetches
    /\ fetches' = fetches + 1
    /\ LET data == [kind |-> "error", v |-> fetches + 1]
       IN  /\ cache' = [cache EXCEPT ![calls[r].cache][calls[r].key] =
                            [data |-> data, timestamp |-> now]]
           /\ calls' = [calls EXCEPT ![r].pc = "done", ![r].result = data]
    /\ UNCHANGED now
    /\ UNCHANGED chatVars
    /\ UNCHANGED cargoVars
    /\ UNCHANGED voyageVars
    /\ UNCHANGED bunker
    /\ UNCHANGED pdaVars
    /\ UNCHANGED portVars
    /\ UNCHANGED marketVars
    /\ UNCHANGED aisVars
    /\ UNCHANGED docVars

\* the adapter fails (no coordinates, a status other than 200, an exception):
\* nothing is written
FinishCallFailed(r) ==
    /\ calls[r].pc = "fetching"
    /\ calls' = [calls EXCEPT ![r].pc = "done", ![r].result = FailureResult(calls[r].cache)]
    /\ UNCHANGED <<now, cache, fetches>>
    /\ UNCHANGED chatVars
    /\ UNCHANGED cargoVars
    /\ UNCHANGED voyageVars
    /\ UNCHANGED bunker
    /\ UNCHANGED pdaVars
    /\ UNCHANGED portVars
    /\ UNCHANGED marketVars
    /\ UNCHANGED aisVars
    /\ UNCHANGED docVars

\* the clock advances
TimeSteps == {1799, 1800}

Tick(d) ==
    /\ now + d <= MaxTime
    /\ now' = now + d
    /\ UNCHANGED <<cache, calls, fetches>>
    /\ UNCHANGED chatVars
    /\ UNCHANGED cargoVars
    /\ UNCHANGED voyageVars
    /\ UNCHANGED bunker
    /\ UNCHANGED pdaVars
    /\ UNCHANGED portVars
    /\ UNCHANGED marketVars
    /\ UNCHANGED aisVars
    /\ UNCHANGED docVars

(***************************************************************************)
(* VoyagePlannerAgent                                                      *)
(*                                                                         *)
(* Distances are in nautical miles, drafts in tenths of a metre, canal     *)
(* fees in dollars, all other money in cents.  estimated_days and          *)
(* fuel_consumption are kept as exact fractions [n, d].                    *)
(***************************************************************************)
\* port names a request can carry
PortNames ==
    { "singapore", "Singapore", "singapore city", "rotterdam", "houston",
      "shanghai", "santos", "qingdao", "mumbai", "tokyo" }

\* str.lower() on a port name
LowerPort(p) == IF p = "Singapore" THEN "singapore" ELSE p

\* a in b, for lower-cased port names
InStr(a, b) ==
    \/ a = b
    \/ (a = "singapore" /\ b = "singapore city")
    \/ (a = "to" /\ b \in {"houston", "santos"})

\* self.routes, in the order of the dict
Routes ==
    << [orig |-> "singapore", dest |-> "rotterdam", distance |-> 8500,
        via_suez |-> TRUE,  via_panama |-> FALSE],
       [orig |-> "singapore", dest |-> "houston",   distance |-> 10500,
        via_suez |-> FALSE, via_panama |-> TRUE],
       [orig |-> "shanghai",  dest |-> "rotterdam", distance |-> 11000,
        via_suez |-> TRUE,  via_panama |-> FALSE],
       [orig |-> "shanghai",  dest |-> "houston",   distance |-> 12000,
        via_suez |-> FALSE, via_panama |-> TRUE],
       [orig |-> "santos",    dest |-> "qingdao",   distance |-> 13000,
        via_suez |-> FALSE, via_panama |-> TRUE],
       [orig |-> "mumbai",    dest |-> "rotterdam", distance |-> 6500,
        via_suez |-> TRUE,  via_panama |-> FALSE],
       [orig |-> "mumbai",    dest |-> "houston",   distance |-> 9500,
        via_suez |-> TRUE,  via_panama |-> FALSE] >>

\* the keys of self.vessel_types
PlannerVesselTypes ==
    { "panamax", "capesize", "supramax", "handysize", "vlcc", "aframax" }

\* self.vessel_types: speed in knots, fuel in tons per day, draft in tenths
VesselData(v) ==
    CASE v = "panamax"   -> [speed |-> 14, fuel_consumption |-> 30, draft |-> 145]
      [] v = "capesize"  -> [speed |-> 15, fuel_consumption |-> 45, draft |-> 185]
      [] v = "supramax"  -> [speed |-> 13, fuel_consumption |-> 25, draft |-> 135]
      [] v = "handysize" -> [speed |-> 12, fuel_consumption |-> 20, draft |-> 115]
      [] v = "vlcc"      -> [speed |-> 16, fuel_consumption |-> 80, draft |-> 220]
      [] v = "aframax"   -> [speed |-> 14, fuel_consumption |-> 35, draft |-> 160]
      [] OTHER           -> [speed |-> 14, fuel_consumption |-> 30, draft |-> 145]

\* _find_route_key: index of the first route whose ports contain or are
\* contained in the requested ones, 0 for None
find_route_key(origin, destination) ==
    LET o == LowerPort(origin)
        d == LowerPort(destination)
        hits == { i \in DOMAIN Routes :
                    /\ (InStr(o, Routes[i].orig) \/ InStr(Routes[i].orig, o))
                    /\ (InStr(d, Routes[i].dest) \/ InStr(Routes[i].dest, d)) }
    IN  IF hits = {} THEN 0 ELSE CHOOSE i \in hits : \A j \in hits : i <= j

\* a plausible slip: another default distance for unknown port pairs
estimate_route_Longer ==
    [distance |-> 10000, via_suez |-> TRUE, via_panama |-> FALSE]

\* _estimate_route
estimate_route ==
    [distance |-> 8000, via_suez |-> TRUE, via_panama |-> FALSE]

\* the route data _plan_voyage works with
RouteData(origin, destination) ==
    LET k == find_route_key(origin, destination)
    IN  IF k = 0 THEN estimate_route
        ELSE [distance |-> Routes[k].distance, via_suez |-> Routes[k].via_suez,
              via_panama |-> Routes[k].via_panama]

\* a plausible slip: the Suez branch charges the Panama tariff
calculate_canal_fees_PanamaTariff(vessel_data, route_data) ==
    IF route_data.via_suez
    THEN Max(800, (vessel_data.draft * 8000 * 525) \div (15 * 100))
    ELSE IF route_data.via_panama
    THEN Max(800, (vessel_data.draft * 8000 * 525) \div (15 * 100))
    ELSE 0

\* _calculate_canal_fees, in dollars:
\*   Suez    max(5000, draft / 20 * 100000 * 8.5)
\*   Panama  max(800,  draft / 15 * 80000 * 5.25)
calculate_canal_fees(vessel_data, route_data) ==
    IF route_data.via_suez
    THEN Max(5000, (vessel_data.draft * 100000 * 85) \div (20 * 10 * 10))
    ELSE IF route_data.via_panama
    THEN Max(800, (vessel_data.draft * 8000 * 525) \div (15 * 100))
    ELSE 0

\* int(distance * 1.4) in floating point: 10500 * 1.4 and 11000 * 1.4 fall
\* just below the integer
IntCapeDistance(distance) ==
    IF distance \in {10500, 11000}
    THEN (distance * 14) \div 10 - 1
    ELSE (distance * 14) \div 10

\* distance / (speed * 24), as a fraction; the distance is given in
\* hundreds of miles
DaysOf(hundreds, vessel_data) ==
    [n |-> hundreds * 100, d |-> vessel_data.speed * 24]

\* (distance / speed) * fuel_consumption / 24, as a fraction
FuelOf(hundreds, vessel_data) ==
    [n |-> hundreds * 100 * vessel_data.fuel_consumption, d |-> vessel_data.speed * 24]

\* str.title() on a port name
TitlePort(p) ==
    CASE p = "singapore"      -> "Singapore"
      [] p = "singapore city" -> "Singapore City"
      [] p = "rotterdam"      -> "Rotterdam"
      [] p = "houston"        -> "Houston"
      [] p = "shanghai"       -> "Shanghai"
      [] p = "santos"         -> "Santos"
      [] p = "qingdao"        -> "Qingdao"
      [] p = "mumbai"         -> "Mumbai"
      [] p = "tokyo"          -> "Tokyo"
      [] p = "from"           -> "From"
      [] p = "to"             -> "To"
      [] p = "between"        -> "Between"
      [] p = "and"            -> "And"
      [] p = "compare"        -> "Compare"
      [] p = "suez"           -> "Suez"
      [] p = "panama"         -> "Panama"
      [] p = "vlcc"           -> "Vlcc"
      [] OTHER                -> p

\* f"{origin.title()} to {destination.title()}" and its suffix
RouteName(origin, destination, suffix) ==
    <<TitlePort(origin), TitlePort(destination), suffix>>

\* _calculate_route_options
calculate_route_options(origin, destination, route_data, vessel_data, req) ==
    LET primary_route ==
            [name |-> RouteName(origin, destination, ""),
             distance |-> route_data.distance,
             via_canal |-> IF route_data.via_suez THEN "Suez"
                           ELSE IF route_data.via_panama THEN "Panama" ELSE "None",
             estimated_days |-> DaysOf(route_data.distance \div 100, vessel_data),
             fuel_consumption |-> FuelOf(route_data.distance \div 100, vessel_data),
             canal_fees |-> calculate_canal_fees(vessel_data, route_data),
             type |-> "primary"]
        cape_route ==
            [name |-> RouteName(origin, destination, "via Cape"),
             distance |-> IntCapeDistance(route_data.distance),
             via_canal |-> "None",
             estimated_days |-> DaysOf((route_data.distance * 14) \div 1000, vessel_data),
             fuel_consumption |-> FuelOf((route_data.distance * 14) \div 1000, vessel_data),
             canal_fees |-> 0,
             type |-> "alternative"]
        suez_distance == (route_data.distance * 8) \div 10
        suez_route ==
            [name |-> RouteName(origin, destination, "via Suez"),
             distance |-> suez_distance,
             via_canal |-> "Suez",
             estimated_days |-> DaysOf(suez_distance \div 100, vessel_data),
             fuel_consumption |-> FuelOf(suez_distance \div 100, vessel_data),
             canal_fees |-> calculate_canal_fees(vessel_data,
                                [via_suez |-> TRUE, via_panama |-> FALSE]),
             type |-> "what_if"]
    IN  << primary_route >>
        \o (IF req.compare_routes /\ (route_data.via_suez \/ route_data.via_panama)
            THEN << cape_route >> ELSE <<>>)
        \o (IF req.compare_routes /\ req.via_suez /\ ~route_data.via_suez
            THEN << suez_route >> ELSE <<>>)

\* round(x, 2) of the amount num / den cents: nearest cent, ties to even
RoundCents(num, den) ==
    LET q == num \div den
        r == num % den
    IN  IF 2 * r > den \/ (2 * r = den /\ q % 2 = 1) THEN q + 1 ELSE q

\* what getBunkerPrice() can do: raise, answer without current_price, answer
\* with a price in dollars per ton
BunkerOutcomes ==
    { [kind |-> "raise", current_price |-> 0],
      [kind |-> "no_price", current_price |-> 0],
      [kind |-> "price", current_price |-> 400],
      [kind |-> "price", current_price |-> 650] }

\* what getWeather() can do: raise, answer without marine data, answer with
\* a wave height in tenths of a metre
WeatherOutcomes ==
    { [kind |-> "raise", wave_height |-> 0],
      [kind |-> "no_marine", wave_height |-> 0],
      [kind |-> "marine", wave_height |-> 5],
      [kind |-> "marine", wave_height |-> 35] }

\* bunker_price.get("current_price", 500)
PriceOf(b) == IF b.kind = "price" THEN b.current_price ELSE 500

\* fuel cost in cents, as a fraction:
\*   fuel_consumption * price / 1000, or fuel_consumption * 0.5 when
\*   getBunkerPrice raises
FuelCostOf(route, b) ==
    IF b.kind = "raise"
    THEN [n |-> route.fuel_consumption.n * 50,
          d |-> route.fuel_consumption.d]
    ELSE [n |-> (route.fuel_consumption.n \div 10) * PriceOf(b),
          d |-> route.fuel_consumption.d]

\* crew cost in cents, as a fraction: estimated_days * 500
CrewCostOf(route) ==
    [n |-> route.estimated_days.n * 500 * 100,
     d |-> route.estimated_days.d]

\* _calculate_voyage_costs, amounts in cents
calculate_voyage_costs(route, vessel_data, b) ==
    LET fuel == FuelCostOf(route, b)
        crew == CrewCostOf(route)
    IN  [fuel_cost    |-> RoundCents(fuel.n, fuel.d),
         canal_fees   |-> route.canal_fees * 100,
         port_charges |-> 1500000,
         crew_cost    |-> RoundCents(crew.n, crew.d),
         other_costs  |-> 1000000,
         total_cost   |-> route.canal_fees * 100 + 1500000 + 1000000
                            + RoundCents(fuel.n + crew.n, fuel.d)]

\* x["total_cost"] if "total_cost" in x else float('inf')
Infinity == 2147483647

RouteTotalCost(x) ==
    IF "total_cost" \in DOMAIN x THEN x.total_cost ELSE Infinity

Recommendation(kind, name) == [kind |-> kind, route |-> name]

\* min(alternatives, key=...): the first alternative of least key
BestAlternative(alternatives) ==
    alternatives[CHOOSE i \in DOMAIN alternatives :
                    /\ \A j \in DOMAIN alternatives :
                          RouteTotalCost(alternatives[i]) <= RouteTotalCost(alternatives[j])
                    /\ \A j \in DOMAIN alternatives :
                          RouteTotalCost(alternatives[j]) = RouteTotalCost(alternatives[i])
                             => i <= j]

\* _generate_recommendations
generate_recommendations(routes, costs, weather) ==
    LET alternatives == SelectSeq(routes, LAMBDA r : r.type # "primary")
    IN  (IF Len(routes) > 1 /\ alternatives # <<>>
            /\ RouteTotalCost(BestAlternative(alternatives)) < costs.total_cost
         THEN << Recommendation("consider", BestAlternative(alternatives).name) >>
         ELSE <<>>)
        \o (IF weather.kind = "marine" /\ weather.wave_height > 30
            THEN << Recommendation("high_waves", <<>>) >>
            ELSE IF weather.kind = "marine" /\ weather.wave_height < 10
            THEN << Recommendation("favorable_sea", <<>>) >>
            ELSE <<>>)
        \o (IF 10 * costs.fuel_cost > 6 * costs.total_cost
            THEN << Recommendation("speed_optimization", <<>>) >> ELSE <<>>)
        \o (IF costs.canal_fees > 0
            THEN << Recommendation("canal_fees", <<>>) >> ELSE <<>>)

\* _plan_voyage
plan_voyage(req, b, w) ==
    LET vessel_data == VesselData(req.vessel_type)
        route_data  == RouteData(req.origin, req.destination)
        routes      == calculate_route_options(req.origin, req.destination, route_data,
                                               vessel_data, req)
        weather     == IF w.kind = "raise" THEN [kind |-> "error", wave_height |-> 0] ELSE w
        costs       == calculate_voyage_costs(routes[1], vessel_data, b)
    IN  [vessel |-> vessel_data, routes |-> routes, weather |-> weather, costs |-> costs,
         recommendations |-> generate_recommendations(routes, costs, weather)]

VoyageRequests ==
    [origin : PortNames, destination : PortNames, vessel_type : PlannerVesselTypes,
     compare_routes : BOOLEAN, via_suez : BOOLEAN, via_panama : BOOLEAN]

NoVoyageRequest ==
    [origin |-> "", destination |-> "", vessel_type |-> "panamax",
     compare_routes |-> FALSE, via_suez |-> FALSE, via_panama |-> FALSE]
NoBunker == [kind |-> "none", current_price |-> 0]
NoPlan ==
    [vessel |-> VesselData("panamax"), routes |-> <<>>,
     weather |-> [kind |-> "none", wave_height |-> 0],
     costs |-> [fuel_cost |-> 0, canal_fees |-> 0, port_charges |-> 0, crew_cost |-> 0,
                other_costs |-> 0, total_cost |-> 0],
     recommendations |-> <<>>]

\* process(), from the parsed request to the plan; b and w are what the
\* bunker and the weather source do during the call
PlanVoyage(b, w) ==
    /\ voyagePc = "parsed"
    /\ plan' = plan_voyage(voyageRequest, b, w)
    /\ bunker' = b
    /\ voyagePc' = "planned"
    /\ UNCHANGED <<voyageRequest, voyageCall, voyageResult>>
    /\ UNCHANGED chatVars
    /\ UNCHANGED cargoVars
    /\ UNCHANGED cacheVars
    /\ UNCHANGED pdaVars
    /\ UNCHANGED portVars
    /\ UNCHANGED marketVars
    /\ UNCHANGED aisVars
    /\ UNCHANGED docVars

(***************************************************************************)
(* VoyagePlannerAgent.process                                              *)
(*                                                                         *)
(* A message is a sequence of lower-case tokens separated by single        *)
(* blanks: a core of at most MaxTokens tokens followed by keywords.        *)
(***************************************************************************)
MaxTokens == 4

CoreTokens == { "from", "to", "-", "singapore", "houston" }

KeywordTails ==
    { <<>>, <<"compare", "suez">>, <<"compare", "panama">>, <<"vlcc">> }

VoyageMessages ==
    { core \o tail : core \in UNION { [1..n -> CoreTokens] : n \in 0..MaxTokens },
                     tail \in KeywordTails }

\* the port vocabularies the entity extractor may have
PortVocabularies == { {}, {"singapore"}, {"singapore", "houston"} }

\* \w+ matches the whole token
IsWord(t) == t # "-"

\* word in message_lower, for the words the parser looks for
MessageHas(message, word) == \E i \in DOMAIN message : message[i] = word

\* entities["ports"]: the known ports of the text in the order of the scan,
\* duplicates removed
RECURSIVE ExtractPorts(_, _, _)
ExtractPorts(message, known, n) ==
    IF n = 0 THEN <<>>
    ELSE LET before == ExtractPorts(message, known, n - 1)
         IN  IF message[n] \in known /\ ~(\E i \in DOMAIN before : before[i] = message[n])
             THEN Append(before, message[n])
             ELSE before

\* entities["vessels"]: the vessel types of the text in the order of the scan
ExtractVessels(message) ==
    SelectSeq(message, LAMBDA t : t \in PlannerVesselTypes)

\* extract_entities
extract_entities(message, known) ==
    [ports |-> ExtractPorts(message, known, Len(message)),
     vessels |-> ExtractVessels(message)]

\* re.findall(keyword + r"\s+(\w+)", message_lower) from token i on: the
\* matches do not overlap
RECURSIVE FindAfter(_, _, _)
FindAfter(message, keyword, i) ==
    IF i >= Len(message) THEN <<>>
    ELSE IF message[i] = keyword /\ IsWord(message[i + 1])
    THEN << message[i + 1] >> \o FindAfter(message, keyword, i + 2)
    ELSE FindAfter(message, keyword, i + 1)

\* matches[0] of re.findall(r"between\s+(\w+)\s+and\s+(\w+)", message_lower)
FindBetween(message) ==
    LET hits == { i \in 1..(Len(message) - 3) :
                    /\ message[i] = "between" /\ IsWord(message[i + 1])
                    /\ message[i + 2] = "and" /\ IsWord(message[i + 3]) }
    IN  IF hits = {} THEN <<>>
        ELSE LET i == CHOOSE i \in hits : \A j \in hits : i <= j
             IN  << message[i + 1], message[i + 3] >>

\* matches[0] of re.findall(r"(\w+)\s*-\s*(\w+)", message_lower)
FindDash(message) ==
    LET hits == { i \in 1..(Len(message) - 2) :
                    /\ IsWord(message[i]) /\ message[i + 1] = "-"
                    /\ IsWord(message[i + 2]) }
    IN  IF hits = {} THEN <<>>
        ELSE LET i == CHOOSE i \in hits : \A j \in hits : i <= j
             IN  << message[i], message[i + 2] >>

\* the ports the first matching pattern adds
PatternPorts(message) ==
    IF FindAfter(message, "from", 1) # <<>> THEN FindAfter(message, "from", 1)
    ELSE IF FindAfter(message, "to", 1) # <<>> THEN FindAfter(message, "to", 1)
    ELSE IF FindBetween(message) # <<>> THEN FindBetween(message)
    ELSE FindDash(message)

\* the vessel type of the request: the first known entity, else the first key
\* of self.vessel_types found in the text, else panamax
RequestVesselType(message, entities) ==
    IF entities.vessels # <<>> THEN entities.vessels[1]
    ELSE IF MessageHas(message, "panamax") THEN "panamax"
    ELSE IF MessageHas(message, "capesize") THEN "capesize"
    ELSE IF MessageHas(message, "supramax") THEN "supramax"
    ELSE IF MessageHas(message, "handysize") THEN "handysize"
    ELSE IF MessageHas(message, "vlcc") THEN "vlcc"
    ELSE IF MessageHas(message, "aframax") THEN "aframax"
    ELSE "panamax"

\* the ports list after the fallback of _parse_voyage_request
ParsedPorts(message, entities) ==
    IF Len(entities.ports) < 2
    THEN entities.ports \o PatternPorts(message)
    ELSE entities.ports

\* _parse_voyage_request; ok is FALSE for None
parse_voyage_request(message, entities) ==
    LET ports == ParsedPorts(message, entities)
    IN  IF Len(ports) >= 2
        THEN [ok |-> TRUE,
              request |-> [origin |-> ports[1], destination |-> ports[2],
                           vessel_type |-> RequestVesselType(message, entities),
                           compare_routes |-> MessageHas(message, "compare"),
                           via_suez |-> MessageHas(message, "suez"),
                           via_panama |-> MessageHas(message, "panama")]]
        ELSE [ok |-> FALSE, request |-> NoVoyageRequest]

\* the dicts process() returns
VoyageSuccess(p) ==
    [agent |-> "Voyage Planner", status |-> "success", required_info |-> <<>>,
     error |-> "", data |-> p, text |-> "voyage summary"]

\* a plausible slip: the incomplete request is answered as a success with
\* an empty plan
clarification_response_AsSuccess ==
    [agent |-> "Voyage Planner", status |-> "success", required_info |-> <<>>,
     error |-> "", data |-> NoPlan, text |-> "voyage summary"]

clarification_response ==
    [agent |-> "Voyage Planner", status |-> "clarification_needed",
     required_info |-> << "origin port", "destination port", "vessel type" >>,
     error |-> "", data |-> NoPlan, text |-> "clarification"]

error_response(error) ==
    [agent |-> "Voyage Planner", status |-> "error", required_info |-> <<>>,
     error |-> error, data |-> NoPlan, text |-> "generic error"]

NoVoyageCall == [message |-> <<>>, known_ports |-> {}]

NoVoyageResult ==
    [agent |-> "", status |-> "none", required_info |-> <<>>, error |-> "",
     data |-> NoPlan, text |-> ""]

\* what the entity extractor does: answer, or raise
ExtractorOutcomes == { "ok", "raise" }

\* process(); b and w are what the bunker and the weather source do
Process(ext, b, w) ==
    /\ voyagePc = "received"
    /\ LET entities == extract_entities(voyageCall.message, voyageCall.known_ports)
           parsed   == parse_voyage_request(voyageCall.message, entities)
       IN  IF ext = "raise"
           THEN /\ voyageResult' = error_response("extractor failure")
                /\ UNCHANGED <<voyageRequest, plan, bunker>>
           ELSE IF ~parsed.ok
           THEN /\ voyageResult' = clarification_response
                /\ UNCHANGED <<voyageRequest, plan, bunker>>
           ELSE /\ voyageRequest' = parsed.request
                /\ plan' = plan_voyage(parsed.request, b, w)
                /\ bunker' = b
                /\ voyageResult' = VoyageSuccess(plan')
    /\ voyagePc' = "returned"
    /\ UNCHANGED voyageCall
    /\ UNCHANGED chatVars
    /\ UNCHANGED cargoVars
    /\ UNCHANGED cacheVars
    /\ UNCHANGED pdaVars
    /\ UNCHANGED portVars
    /\ UNCHANGED marketVars
    /\ UNCHANGED aisVars
    /\ UNCHANGED docVars

(***************************************************************************)
(* PDAManagementAgent                                                      *)
(*                                                                         *)
(* Multipliers are in tenths, line items in thousandths,                   *)
(* total_cost_per_call in hundredths.                                      *)
(***************************************************************************)
MaxPorts == 1
MaxCargoTypes == 2
MaxVesselTypes == 2

PdaPortNames == { "rotterdam", "Houston", "fujairah", "cape_town", "tokyo" }
PdaCargoNames == { "coal", "Oil", "containers" }
PdaVesselNames == { "vlcc", "Capesize", "panamax", "handysize", "aframax" }

\* str.lower() on the names above
LowerName(n) ==
    CASE n = "Houston"  -> "houston"
      [] n = "Oil"      -> "oil"
      [] n = "Capesize" -> "capesize"
      [] OTHER          -> n

\* _get_port_region
get_port_region(port) ==
    CASE port \in {"singapore", "shanghai", "mumbai"} -> "asia"
      [] port \in {"rotterdam", "london"}             -> "europe"
      [] port \in {"houston", "santos"}               -> "americas"
      [] port = "fujairah"                            -> "middle_east"
      [] port = "cape_town"                           -> "africa"
      [] OTHER                                        -> "asia"

\* self.regional_multipliers.get(region, 1.0)
RegionalMultiplier(region) ==
    CASE region = "asia"        -> 10
      [] region = "europe"      -> 13
      [] region = "americas"    -> 12
      [] region = "middle_east" -> 9
      [] region = "africa"      -> 11
      [] OTHER                  -> 10

\* base_costs for a multiplier
BaseCosts(multiplier) ==
    [port_dues      |-> 25 * multiplier,
     pilotage       |-> 15 * multiplier,
     towage         |-> 10 * multiplier,
     berth_fees     |-> 8 * multiplier,
     agency_fees    |-> 12 * multiplier,
     documentation  |-> 5 * multiplier,
     communications |-> 3 * multiplier,
     security       |-> 6 * multiplier,
     fresh_water    |-> 4 * multiplier,
     provisions     |-> 7 * multiplier,
     waste_disposal |-> 2 * multiplier]

NoCosts == [k \in {} |-> 0]

\* cargo_costs after the loop over the first n cargo types: each type
\* overwrites both items
RECURSIVE CargoCosts(_, _, _)
CargoCosts(cargo_types, n, multiplier) ==
    IF n = 0 THEN NoCosts
    ELSE LET c == LowerName(cargo_types[n])
         IN  IF c \in {"coal", "iron_ore", "grain"}
             THEN [stevedoring |-> 18 * multiplier, equipment |-> 5 * multiplier]
             ELSE IF c \in {"oil", "lng", "lpg"}
             THEN [stevedoring |-> 22 * multiplier, equipment |-> 8 * multiplier]
             ELSE [stevedoring |-> 20 * multiplier, equipment |-> 6 * multiplier]

\* vessel_adjustments after the loop over the first n vessel types: a
\* recognised type overwrites size_multiplier, any other leaves the dict alone
RECURSIVE VesselAdjustments(_, _)
VesselAdjustments(vessel_types, n) ==
    IF n = 0 THEN NoCosts
    ELSE LET v == LowerName(vessel_types[n])
         IN  IF v \in {"vlcc", "capesize"} THEN [size_multiplier |-> 15]
             ELSE IF v \in {"panamax", "supramax"} THEN [size_multiplier |-> 10]
             ELSE IF v = "handysize" THEN [size_multiplier |-> 8]
             ELSE VesselAdjustments(vessel_types, n - 1)

\* sum(d.values())
RECURSIVE SumValues(_)
SumValues(d) ==
    IF DOMAIN d = {} THEN 0
    ELSE LET k == CHOOSE k \in DOMAIN d : TRUE
         IN  d[k] + SumValues([j \in DOMAIN d \ {k} |-> d[j]])

\* a plausible slip: the size multiplier scales the base costs only
TotalCost_BaseOnly(base_costs, cargo_costs, vessel_adjustments) ==
    IF DOMAIN vessel_adjustments # {}
    THEN SumValues(base_costs) * vessel_adjustments.size_multiplier
           + SumValues(cargo_costs) * 10
    ELSE (SumValues(base_costs) + SumValues(cargo_costs)) * 10

\* total_cost before rounding, in ten-thousandths
TotalCost(base_costs, cargo_costs, vessel_adjustments) ==
    IF DOMAIN vessel_adjustments # {}
    THEN (SumValues(base_costs) + SumValues(cargo_costs))
           * vessel_adjustments.size_multiplier
    ELSE (SumValues(base_costs) + SumValues(cargo_costs)) * 10

\* round(total_cost, 2) of an amount given in ten-thousandths
Round2(x) == (x + 50) \div 100

\* the estimate of one port
EstimateFor(port, req) ==
    LET region             == get_port_region(LowerName(port))
        multiplier         == RegionalMultiplier(region)
        base_costs         == BaseCosts(multiplier)
        cargo_costs        == CargoCosts(req.cargo_types, Len(req.cargo_types), multiplier)
        vessel_adjustments == VesselAdjustments(req.vessel_types, Len(req.vessel_types))
    IN  [base_costs          |-> base_costs,
         cargo_costs         |-> cargo_costs,
         vessel_adjustments  |-> vessel_adjustments,
         total_cost_per_call |-> Round2(TotalCost(base_costs, cargo_costs,
                                                  vessel_adjustments)),
         region              |-> region,
         multiplier          |-> multiplier]

\* _estimate_pda_costs: one entry per port name
estimate_pda_costs(req) ==
    [port \in { req.ports[i] : i \in DOMAIN req.ports } |-> EstimateFor(port, req)]

SeqsUpTo(S, n) == UNION { [1..k -> S] : k \in 0..n }

PdaRequests ==
    [ports        : SeqsUpTo(PdaPortNames, MaxPorts),
     cargo_types  : SeqsUpTo(PdaCargoNames, MaxCargoTypes),
     vessel_types : SeqsUpTo(PdaVesselNames, MaxVesselTypes)]

NoPdaRequest == [ports |-> <<>>, cargo_types |-> <<>>, vessel_types |-> <<>>]
NoEstimates == [port \in {} |-> 0]

\* process(), from the parsed request to the estimates
EstimatePdaCosts ==
    /\ pdaPc = "parsed"
    /\ estimates' = estimate_pda_costs(pdaRequest)
    /\ pdaPc' = "estimated"
    /\ UNCHANGED pdaRequest
    /\ UNCHANGED chatVars
    /\ UNCHANGED cargoVars
    /\ UNCHANGED cacheVars
    /\ UNCHANGED voyageVars
    /\ UNCHANGED bunker
    /\ UNCHANGED portVars
    /\ UNCHANGED marketVars
    /\ UNCHANGED aisVars
    /\ UNCHANGED docVars

(***************************************************************************)
(* MarketInsightsAgent                                                     *)
(*                                                                         *)
(* Freight rates are in tenths of a dollar per ton.  A dict is a function  *)
(* from its keys; self.freight_benchmarks is an attribute of the agent     *)
(* object and lives as long as the agent.                                  *)
(***************************************************************************)
\* self.freight_benchmarks as built by __init__
FreightBenchmarks ==
    [k \in { "panamax", "capesize", "supramax", "handysize" } |->
        CASE k = "panamax"   -> [coal |-> 185, grain |-> 220, iron_ore |-> 205]
          [] k = "capesize"  -> [iron_ore |-> 250, coal |-> 225, bauxite |-> 240]
          [] k = "supramax"  -> [grain |-> 195, coal |-> 170, fertilizer |-> 185]
          [] k = "handysize" -> [grain |-> 165, coal |-> 150, steel |-> 170]]

\* self.market_indices as built by __init__
MarketIndices ==
    [bdi  |-> [current |-> 1250, trend |-> "rising"],
     ccfi |-> [current |-> 1250, trend |-> "stable"],
     bcti |-> [current |-> 850,  trend |-> "falling"]]

MarketFocusAreas == { "freight_rates", "bunker_prices", "market_indices", "vessel_analysis" }
MarketVessels == { <<>>, << "Capesize" >>, << "vlcc" >> }
TimePeriods == { "current", "trend", "forecast" }

MarketRequests ==
    [focus_areas : SUBSET MarketFocusAreas, vessel_types : MarketVessels,
     time_period : TimePeriods]

\* str.lower() on the vessel names above
LowerVessel(v) == IF v = "Capesize" THEN "capesize" ELSE v

Commentary == "Freight rates remain stable with seasonal variations expected"

\* dict[key] = value
DictSet(dict, key, value) ==
    [k \in DOMAIN dict \cup {key} |-> IF k = key THEN value ELSE dict[k]]

EmptyDict == [k \in {} |-> Commentary]

\* the dict named rates before the commentary is added; with no vessel
\* types it is self.freight_benchmarks itself, not a copy
RECURSIVE RequestedRates(_, _)
RequestedRates(vessel_types, table) ==
    IF vessel_types = <<>> THEN EmptyDict
    ELSE LET rest == RequestedRates(Tail(vessel_types), table)
             v    == Head(vessel_types)
         IN  IF LowerVessel(v) \in DOMAIN table
             THEN [k \in DOMAIN rest \cup {v} |->
                      IF k \in DOMAIN rest THEN rest[k] ELSE table[LowerVessel(v)]]
             ELSE rest

\* _get_freight_rates: the dict returned
get_freight_rates(vessel_types, table) ==
    IF vessel_types # <<>>
    THEN DictSet(RequestedRates(vessel_types, table), "commentary", Commentary)
    ELSE DictSet(table, "commentary", Commentary)

\* _get_freight_rates: self.freight_benchmarks after the call
freight_benchmarks_after(vessel_types, table) ==
    IF vessel_types # <<>> THEN table
    ELSE DictSet(table, "commentary", Commentary)

\* _get_bunker_insights; bunker_data["current_price"] raises KeyError when
\* the answer carries no price
get_bunker_insights(b) ==
    IF b.kind = "price"
    THEN [error |-> "", current_price |-> b.current_price]
    ELSE [error |-> "Bunker data unavailable", current_price |-> 0]

NoBunkerInsights == [error |-> "", current_price |-> 0]

\* the keys of insights
InsightKeys(req) ==
    { k \in { "indices", "freight_rates", "bunker_prices", "vessel_analysis", "trends" } :
        CASE k = "indices"         -> "market_indices" \in req.focus_areas \/ req.focus_areas = {}
          [] k = "freight_rates"   -> "freight_rates" \in req.focus_areas \/ req.focus_areas = {}
          [] k = "bunker_prices"   -> "bunker_prices" \in req.focus_areas \/ req.focus_areas = {}
          [] k = "vessel_analysis" -> "vessel_analysis" \in req.focus_areas \/ req.vessel_types # <<>>
          [] k = "trends"          -> req.time_period \in { "trend", "forecast" } }

\* _generate_market_insights
generate_market_insights(req, b, table) ==
    [keys          |-> InsightKeys(req),
     indices       |-> MarketIndices,
     freight_rates |-> IF "freight_rates" \in InsightKeys(req)
                       THEN get_freight_rates(req.vessel_types, table) ELSE EmptyDict,
     bunker_prices |-> IF "bunker_prices" \in InsightKeys(req)
                       THEN get_bunker_insights(b) ELSE NoBunkerInsights]

NoMarketRequest == [focus_areas |-> {}, vessel_types |-> <<>>, time_period |-> "current"]

NoInsights ==
    [keys |-> {}, indices |-> MarketIndices, freight_rates |-> EmptyDict,
     bunker_prices |-> NoBunkerInsights]

NoMarketResult == [agent |-> "", status |-> "none", insights |-> NoInsights, error |-> "", text |-> ""]

MarketErrorText ==
    "I encountered an error generating market insights. Please try again with more specific details."

\* process(): one whole call on the long-lived agent
MarketProcess(req, ext, b) ==
    /\ marketPc = "ready"
    /\ UNCHANGED marketPc
    /\ IF ext = "raise"
       THEN /\ marketResult' = [agent |-> "Market Insights", status |-> "error",
                                insights |-> NoInsights, error |-> "extractor failure",
                                text |-> MarketErrorText]
            /\ UNCHANGED <<marketRequest, freight_benchmarks, bunker>>
       ELSE /\ marketRequest' = req
            /\ marketResult' = [agent |-> "Market Insights", status |-> "success",
                                insights |-> generate_market_insights(req, b, freight_benchmarks),
                                error |-> "", text |-> "Market Insights Summary"]
            /\ freight_benchmarks' =
                  IF "freight_rates" \in InsightKeys(req)
                  THEN freight_benchmarks_after(req.vessel_types, freight_benchmarks)
                  ELSE freight_benchmarks
            /\ bunker' = IF "bunker_prices" \in InsightKeys(req) THEN b ELSE bunker
    /\ UNCHANGED chatVars
    /\ UNCHANGED cargoVars
    /\ UNCHANGED cacheVars
    /\ UNCHANGED voyageVars
    /\ UNCHANGED pdaVars
    /\ UNCHANGED portVars
    /\ UNCHANGED aisVars
    /\ UNCHANGED docVars

(***************************************************************************)
(* PortIntelligenceAgent                                                   *)
(*                                                                         *)
(* Drafts are in tenths of a metre, fees in hundredths of a dollar per     *)
(* ton.  A dict of sub-results is a function from the requested port       *)
(* names; a section that is not produced is the empty function.            *)
(***************************************************************************)
MaxPortBatch == 2

\* the keys of self.ports
KnownPorts == { "singapore", "rotterdam", "shanghai", "houston", "fujairah" }

\* self.ports
PortTable(p) ==
    CASE p = "singapore" ->
           [country |-> "Singapore", region |-> "Asia", bunker_available |-> TRUE,
            bunker_types |-> << "IFO 380", "IFO 180", "MGO", "VLSFO" >>,
            max_draft |-> 230,
            facilities |-> << "bulk", "container", "tanker", "lng" >>,
            fees |-> [port_dues |-> 25, pilotage |-> 15, towage |-> 10]]
      [] p = "rotterdam" ->
           [country |-> "Netherlands", region |-> "Europe", bunker_available |-> TRUE,
            bunker_types |-> << "IFO 380", "IFO 180", "MGO", "VLSFO", "ULSFO" >>,
            max_draft |-> 240,
            facilities |-> << "bulk", "container", "tanker", "lng", "lpg" >>,
            fees |-> [port_dues |-> 30, pilotage |-> 20, towage |-> 15]]
      [] p = "shanghai" ->
           [country |-> "China", region |-> "Asia", bunker_available |-> TRUE,
            bunker_types |-> << "IFO 380", "IFO 180", "MGO", "VLSFO" >>,
            max_draft |-> 175,
            facilities |-> << "bulk", "container", "tanker" >>,
            fees |-> [port_dues |-> 20, pilotage |-> 12, towage |-> 8]]
      [] p = "houston" ->
           [country |-> "USA", region |-> "Americas", bunker_available |-> TRUE,
            bunker_types |-> << "IFO 380", "IFO 180", "MGO", "VLSFO" >>,
            max_draft |-> 140,
            facilities |-> << "bulk", "container", "tanker", "lng" >>,
            fees |-> [port_dues |-> 35, pilotage |-> 25, towage |-> 20]]
      [] p = "fujairah" ->
           [country |-> "UAE", region |-> "Middle East", bunker_available |-> TRUE,
            bunker_types |-> << "IFO 380", "IFO 180", "MGO", "VLSFO" >>,
            max_draft |-> 200,
            facilities |-> << "bulk", "tanker", "bunker" >>,
            fees |-> [port_dues |-> 18, pilotage |-> 10, towage |-> 8]]

\* port names and vessel types a request can carry
PortQueryNames == { "singapore", "Rotterdam", "houston", "atlantis", "tokyo" }
PortQueryVessels == { <<>>, << "panamax" >>, << "VLCC" >>, << "bulk carrier" >> }
FocusAreas == { "bunker_info", "facilities", "fees", "restrictions", "comparison" }

\* str.lower() on the names above
LowerQuery(n) ==
    CASE n = "Rotterdam" -> "rotterdam"
      [] n = "VLCC"      -> "vlcc"
      [] OTHER           -> n

RangeOf(seq) == { seq[i] : i \in DOMAIN seq }

Known(port) == LowerQuery(port) \in KnownPorts

port_not_found == [status |-> "port_not_found"]

\* intelligence["port_details"]
PortDetails(ports) ==
    [port \in RangeOf(ports) |->
        IF Known(port) THEN PortTable(LowerQuery(port)) ELSE [status |-> "not_found"]]

\* _get_bunker_analysis; failing is the set of ports for which
\* getBunkerPrice(port) raises
get_bunker_analysis(ports, failing) ==
    [port \in RangeOf(ports) |->
        IF Known(port)
        THEN IF PortTable(LowerQuery(port)).bunker_available
             THEN [available |-> TRUE,
                   types |-> PortTable(LowerQuery(port)).bunker_types,
                   prices |-> IF port \in failing THEN "Price data unavailable"
                              ELSE "bunker data",
                   recommendation |-> "Good bunkering option"]
             ELSE [available |-> FALSE, types |-> <<>>, prices |-> "None",
                   recommendation |-> "Not recommended for bunkering"]
        ELSE port_not_found]

\* word in vessel_lower, for the facility words
VesselHas(vessel_lower, word) == vessel_lower = "bulk carrier" /\ word = "bulk"

\* the compatibility of one vessel type with the facilities of a port
Compatibility(vessel_type, facilities) ==
    IF \E w \in {"bulk", "tanker", "container", "lng"} :
          VesselHas(LowerQuery(vessel_type), w) /\ w \in RangeOf(facilities)
    THEN "Fully compatible"
    ELSE "Limited compatibility"

\* _get_facilities_analysis
get_facilities_analysis(ports, vessel_types) ==
    [port \in RangeOf(ports) |->
        IF Known(port)
        THEN [facilities |-> PortTable(LowerQuery(port)).facilities,
              vessel_compatibility |->
                 [v \in RangeOf(vessel_types) |->
                     Compatibility(v, PortTable(LowerQuery(port)).facilities)],
              recommendation |-> "Good port for multiple vessel types"]
        ELSE port_not_found]

\* a plausible slip: one unknown port makes the whole batch not found
get_fee_analysis_AllOrNothing(ports) ==
    [port \in RangeOf(ports) |->
        IF \A q \in RangeOf(ports) : Known(q)
        THEN LET fees  == PortTable(LowerQuery(port)).fees
                 total == fees.port_dues + fees.pilotage + fees.towage
             IN  [fees |-> fees, total_fee_per_ton |-> total,
                  fee_level |-> IF total < 40 THEN "Low"
                                ELSE IF total < 60 THEN "Medium" ELSE "High"]
        ELSE port_not_found]

\* _get_fee_analysis
get_fee_analysis(ports) ==
    [port \in RangeOf(ports) |->
        IF Known(port)
        THEN LET fees  == PortTable(LowerQuery(port)).fees
                 total == fees.port_dues + fees.pilotage + fees.towage
             IN  [fees |-> fees, total_fee_per_ton |-> total,
                  fee_level |-> IF total < 40 THEN "Low"
                                ELSE IF total < 60 THEN "Medium" ELSE "High"]
        ELSE port_not_found]

\* vessel_drafts.get(vessel_lower, 15.0)
QueryVesselDraft(vessel_lower) ==
    CASE vessel_lower = "panamax"   -> 145
      [] vessel_lower = "capesize"  -> 185
      [] vessel_lower = "supramax"  -> 135
      [] vessel_lower = "handysize" -> 115
      [] vessel_lower = "vlcc"      -> 220
      [] vessel_lower = "aframax"   -> 160
      [] OTHER                      -> 150

\* _get_restrictions_analysis; a restriction is the excess of the vessel's
\* draft over the port's limit, 0 for "No draft restrictions"
get_restrictions_analysis(ports, vessel_types) ==
    [port \in RangeOf(ports) |->
        IF Known(port)
        THEN LET max_draft == PortTable(LowerQuery(port)).max_draft
             IN  [max_draft |-> max_draft,
                  vessel_restrictions |->
                     [v \in RangeOf(vessel_types) |->
                         IF QueryVesselDraft(LowerQuery(v)) <= max_draft THEN 0
                         ELSE QueryVesselDraft(LowerQuery(v)) - max_draft],
                  recommendation |-> "Check vessel specifications against port limits"]
        ELSE port_not_found]

\* the first port of the list that satisfies P, "" when none does
FirstPort(ports, P(_)) ==
    LET hits == { i \in DOMAIN ports : P(ports[i]) }
    IN  IF hits = {} THEN "" ELSE ports[CHOOSE i \in hits : \A j \in hits : i <= j]

\* _compare_ports; the value "N/A" of max_draft and facilities_count is -1
compare_ports(ports) ==
    LET bunker_available ==
            [port \in RangeOf(ports) |->
                IF Known(port)
                THEN IF PortTable(LowerQuery(port)).bunker_available THEN "True" ELSE "False"
                ELSE "N/A"]
        max_draft ==
            [port \in RangeOf(ports) |->
                IF Known(port) THEN PortTable(LowerQuery(port)).max_draft ELSE -1]
        facilities_count ==
            [port \in RangeOf(ports) |->
                IF Known(port) THEN Len(PortTable(LowerQuery(port)).facilities) ELSE -1]
        Truthy(port) == bunker_available[port] # "False"
        Drafted(port) == max_draft[port] # -1
        Deepest(port) ==
            Drafted(port) /\ \A q \in RangeOf(ports) : Drafted(q) => max_draft[q] <= max_draft[port]
        best    == FirstPort(ports, Truthy)
        deepest == FirstPort(ports, Deepest)
    IN  [bunker_available |-> bunker_available,
         max_draft |-> max_draft,
         facilities_count |-> facilities_count,
         recommendations |->
            (IF Len(ports) >= 2 /\ best # ""
             THEN << [kind |-> "Best bunkering", port |-> best] >> ELSE <<>>)
            \o (IF Len(ports) >= 2 /\ deepest # ""
                THEN << [kind |-> "Deepest draft", port |-> deepest] >> ELSE <<>>)]

NoSection == [port \in {} |-> port_not_found]

NoComparison ==
    [bunker_available |-> NoSection, max_draft |-> NoSection,
     facilities_count |-> NoSection, recommendations |-> <<>>]

\* _generate_port_intelligence
generate_port_intelligence(req, failing) ==
    [port_details |->
        IF req.ports # <<>> THEN PortDetails(req.ports) ELSE NoSection,
     bunker_analysis |->
        IF "bunker_info" \in req.focus_areas \/ req.focus_areas = {}
        THEN get_bunker_analysis(req.ports, failing) ELSE NoSection,
     facilities_analysis |->
        IF "facilities" \in req.focus_areas \/ req.vessel_types # <<>>
        THEN get_facilities_analysis(req.ports, req.vessel_types) ELSE NoSection,
     fee_analysis |->
        IF "fees" \in req.focus_areas THEN get_fee_analysis(req.ports) ELSE NoSection,
     restrictions_analysis |->
        IF "restrictions" \in req.focus_areas \/ req.vessel_types # <<>>
        THEN get_restrictions_analysis(req.ports, req.vessel_types) ELSE NoSection,
     port_comparison |->
        IF "comparison" \in req.focus_areas /\ Len(req.ports) > 1
        THEN compare_ports(req.ports) ELSE NoComparison]

PortRequests ==
    [ports        : UNION { [1..n -> PortQueryNames] : n \in 0..MaxPortBatch },
     focus_areas  : SUBSET FocusAreas,
     vessel_types : PortQueryVessels]

NoPortRequest == [ports |-> <<>>, focus_areas |-> {}, vessel_types |-> <<>>]

NoIntelligence ==
    [port_details |-> NoSection, bunker_analysis |-> NoSection,
     facilities_analysis |-> NoSection, fee_analysis |-> NoSection,
     restrictions_analysis |-> NoSection, port_comparison |-> NoComparison]

NoPortResult == [agent |-> "", status |-> "none", intelligence |-> NoIntelligence]

\* process(), from the parsed request to the returned dict
PortProcess(failing) ==
    /\ portPc = "parsed"
    /\ failing \subseteq { port \in RangeOf(portRequest.ports) :
                             ("bunker_info" \in portRequest.focus_areas
                                \/ portRequest.focus_areas = {}) /\ Known(port) }
    /\ portResult' =
          [agent |-> "Port Intelligence", status |-> "success",
           intelligence |-> generate_port_intelligence(portRequest, failing)]
    /\ portPc' = "returned"
    /\ UNCHANGED portRequest
    /\ UNCHANGED chatVars
    /\ UNCHANGED cargoVars
    /\ UNCHANGED cacheVars
    /\ UNCHANGED voyageVars
    /\ UNCHANGED bunker
    /\ UNCHANGED pdaVars
    /\ UNCHANGED marketVars
    /\ UNCHANGED aisVars
    /\ UNCHANGED docVars

(***************************************************************************)
(* /api/chat                                                               *)
(***************************************************************************)
\* values of conversation_context["current_agent"]; "absent" is a context
\* without the key
ContextAgents == SpecializedAgents \cup {"absent", "general", "voyage_planning"}
Contexts == [current_agent : ContextAgents]

\* request.conversation_context.get("current_agent", "general")
CurrentAgentOf(ctx) ==
    IF ctx.current_agent = "absent" THEN "general" ELSE ctx.current_agent

NoRequest  == [message |-> <<>>, conversation_context |-> [current_agent |-> "absent"]]
NoResponse == [agent |-> "none", status |-> "none", intent |-> "none", confidence |-> 0,
               entities |-> "none", conversation_context |-> [current_agent |-> "absent"],
               text |-> [template |-> "none", detail |-> "none"]]
NoClassification == [intent |-> "none", confidence |-> 0]

\* str.title() on the port names of the voyage branch
Title(w) ==
    CASE w = "singapore" -> "Singapore"
      [] w = "rotterdam" -> "Rotterdam"
      [] w = "santos"    -> "Santos"
      [] w = "qingdao"   -> "Qingdao"
      [] w = "suez"      -> "Suez"
      [] OTHER           -> w

\* the port list scanned by the voyage_planning branch, in its order
ChatPorts == << "singapore", "rotterdam", "santos", "qingdao", "suez" >>

\* the loop of lines 1165-1171: origin is the first port of the list found in
\* the message, destination the second
ChatPortsFound(message_lower) ==
    SelectSeq(ChatPorts, LAMBDA p : AnyIn({p}, message_lower))

ChatOrigin(message_lower) ==
    LET f == ChatPortsFound(message_lower)
    IN  IF Len(f) >= 1 THEN Title(f[1]) ELSE "None"

ChatDestination(message_lower) ==
    LET f == ChatPortsFound(message_lower)
    IN  IF Len(f) >= 2 THEN Title(f[2]) ELSE "None"

\* keywords of the "force document analysis" test of the fallback branch
FallbackDocumentWords ==
    { "document", "charter", "party", "analyze", "summary", "extract", "review", "examine" }

\* the text of a ChatResponse: the fixed part of the f-string and what is
\* formatted into it, "exception message" for str(e) of the exception caught
\* by the outer except clause, "error value" for the "error" entry of a
\* collaborator's answer
ResponseText(agent, status) ==
    IF status # "error" THEN [template |-> "answer", detail |-> "none"]
    ELSE CASE agent = "Captain Router"   ->
                 [template |-> "An error occurred: ", detail |-> "exception message"]
           [] agent = "Vessel Tracker"   ->
                 [template |-> "Error: ", detail |-> "error value"]
           [] agent = "Voyage Planner"   ->
                 [template |-> "Error planning voyage: ", detail |-> "error value"]
           [] agent = "Weather Analyst"  ->
                 [template |-> "Weather error: ", detail |-> "error value"]
           [] OTHER                      ->
                 [template |-> "Document analysis error: ", detail |-> "error value"]

\* a plausible slip: the server records the answering intent in the context
Envelope_TracksAgent(agent, status, intent, confidence, entities, ctx) ==
    [agent |-> agent, status |-> status, intent |-> intent, confidence |-> confidence,
     entities |-> entities, conversation_context |-> [current_agent |-> intent],
     text |-> ResponseText(agent, status)]

Envelope(agent, status, intent, confidence, entities, ctx) ==
    [agent |-> agent, status |-> status, intent |-> intent, confidence |-> confidence,
     entities |-> entities, conversation_context |-> ctx,
     text |-> ResponseText(agent, status)]

\* outcomes of the collaborators a branch calls: "ok" a value, "error" an
\* error value (a dict with an "error" key, or None for the LLM), "raise" an
\* exception while the branch formats the value
Outcomes == {"ok", "error", "raise"}

\* a plausible slip: the pda_management branch is missing from the chain
BranchOf_NoPda(intent) ==
    IF intent \in (SpecializedAgents \ {"pda_management"})
          \cup {"vessel_tracking", "voyage_planning", "weather", "document_analysis"}
    THEN intent
    ELSE "fallback"

\* the branch taken for a classified intent: the if/elif chain of chat()
BranchOf(intent) ==
    IF intent \in SpecializedAgents
          \cup {"vessel_tracking", "voyage_planning", "weather", "document_analysis"}
    THEN intent
    ELSE "fallback"

\* a plausible slip: the error envelope marks "no confidence" with -1
ErrorEnvelope_Negative(ctx) ==
    Envelope("Captain Router", "error", "error", -100, "none", ctx)

\* the except clause of lines 1542-1552
ErrorEnvelope(ctx) ==
    Envelope("Captain Router", "error", "error", 0, "none", ctx)

\* the body of chat() for one request; ext is the outcome of the collaborator
\* of the branch taken
ChatResponseOf(message, ctx, ext) ==
    LET message_lower == LowerMsg(message)
        c      == classify_intent(message, CurrentAgentOf(ctx))
        intent == c.intent
        conf   == c.confidence
        b      == BranchOf(intent)
    IN  CASE b = "cargo_matching" ->
               IF AnyIn({"singapore"}, message_lower) /\ AnyIn({"atlantic"}, message_lower)
               THEN Envelope("Cargo Matcher", "success", intent, conf, "Singapore-Atlantic", ctx)
               ELSE Envelope("Cargo Matcher", "success", intent, conf, "cargo_matching", ctx)
          [] b = "market_insights" ->
               Envelope("Market Insights", "success", intent, conf,
                        "comprehensive_market_analysis", ctx)
          [] b = "port_intelligence" ->
               IF AnyIn({"port"}, message_lower) /\ AnyIn({"status"}, message_lower)
               THEN Envelope("Port Intelligence", "success", intent, conf, "port_status", ctx)
               ELSE Envelope("Port Intelligence", "success", intent, conf,
                             "port_intelligence", ctx)
          [] b = "pda_management" ->
               Envelope("PDA Management", "success", intent, conf,
                        "comprehensive_pda_analysis", ctx)
          [] b = "vessel_tracking" ->
               IF ext = "raise" THEN ErrorEnvelope(ctx)
               ELSE IF AnyIn({"ever given", "cosco", "msc", "maersk", "cma cgm"}, message_lower)
               THEN IF ext = "ok"
                    THEN Envelope("Vessel Tracker", "success", intent, conf, "vessel", ctx)
                    ELSE Envelope("Vessel Tracker", "error", intent, conf, "vessel", ctx)
               ELSE Envelope("Vessel Tracker", "success", intent, conf, "all_vessels", ctx)
          [] b = "voyage_planning" ->
               LET origin      == ChatOrigin(message_lower)
                   destination == ChatDestination(message_lower)
               IN  IF origin # "None" /\ destination # "None"
                   THEN IF ext = "error"
                        THEN Envelope("Voyage Planner", "error", intent, conf, "none", ctx)
                        ELSE Envelope("Voyage Planner", "success", intent, conf,
                                      <<origin, destination>>, ctx)
                   ELSE Envelope("Voyage Planner", "success", intent, conf,
                                 "voyage_planning", ctx)
          [] b = "weather" ->
               IF AnyIn({"singapore", "rotterdam", "santos", "qingdao", "suez",
                         "london", "tokyo", "new york"}, message_lower)
               THEN IF ext = "ok"
                    THEN Envelope("Weather Analyst", "success", intent, conf, "location", ctx)
                    ELSE Envelope("Weather Analyst", "error", intent, conf, "location", ctx)
               ELSE Envelope("Weather Analyst", "success", intent, conf, "weather", ctx)
          [] b = "document_analysis" ->
               IF ext = "ok"
               THEN Envelope("Document Analyst", "success", intent, conf, "document_id", ctx)
               ELSE Envelope("Document Analyst", "error", intent, conf, "document_id", ctx)
          [] OTHER ->
               IF AnyIn(FallbackDocumentWords, message_lower) /\ ext = "ok"
               THEN Envelope("Document Analyst", "success", "document_analysis", 90,
                             "document_id", ctx)
               ELSE Envelope("Captain Router", "success", intent, conf, "general", ctx)

\* the branch that produced the response: "error" is the outer except clause
ChatBranchOf(message, ctx, ext) ==
    LET b == BranchOf(classify_intent(message, CurrentAgentOf(ctx)).intent)
    IN  IF b = "vessel_tracking" /\ ext = "raise" THEN "error" ELSE b

\* POST /api/chat: the whole handler, for the request that is waiting
Chat(ext) ==
    LET message == request.message
        ctx     == request.conversation_context
    IN  /\ branch = "none"
        /\ classified' = classify_intent(message, CurrentAgentOf(ctx))
        /\ branch'     = ChatBranchOf(message, ctx, ext)
        /\ response'   = ChatResponseOf(message, ctx, ext)
        /\ UNCHANGED request
        /\ UNCHANGED cargoVars
        /\ UNCHANGED cacheVars
        /\ UNCHANGED voyageVars
        /\ UNCHANGED bunker
        /\ UNCHANGED pdaVars
        /\ UNCHANGED portVars
        /\ UNCHANGED marketVars
        /\ UNCHANGED aisVars
        /\ UNCHANGED docVars

(***************************************************************************)
(* AISCSVManager: the continuous-update loop                               *)
(*                                                                         *)
(* Each call of start_continuous_updates is a coroutine.  It runs without  *)
(* suspension up to its first asyncio.sleep (update_all_vessel_positions   *)
(* awaits nothing and catches its own exceptions), and is resumed when the *)
(* sleep ends.                                                             *)
(***************************************************************************)
LoopIds == 1..MaxLoops

\* start_continuous_updates, up to the first sleep: refused when the flag
\* is set, otherwise the flag is set and the first update is made
start_continuous_updates(l) ==
    /\ loopPc[l] = "absent"
    /\ \A k \in LoopIds : k < l => loopPc[k] # "absent"
    /\ IF is_updating
       THEN /\ loopPc' = [loopPc EXCEPT ![l] = "refused"]
            /\ UNCHANGED <<is_updating, rounds>>
       ELSE /\ is_updating' = TRUE
            /\ rounds' = [rounds EXCEPT ![l] = 1]
            /\ loopPc' = [loopPc EXCEPT ![l] = "sleeping"]
    /\ UNCHANGED docVars
    /\ UNCHANGED chatVars
    /\ UNCHANGED cargoVars
    /\ UNCHANGED cacheVars
    /\ UNCHANGED voyageVars
    /\ UNCHANGED bunker
    /\ UNCHANGED pdaVars
    /\ UNCHANGED portVars
    /\ UNCHANGED marketVars

\* the sleep of loop l ends: the while test reads the flag; the loop makes
\* its next update and sleeps again, or returns
Wake(l) ==
    /\ loopPc[l] = "sleeping"
    /\ IF is_updating
       THEN /\ rounds[l] < MaxRounds
            /\ rounds' = [rounds EXCEPT ![l] = rounds[l] + 1]
            /\ UNCHANGED loopPc
       ELSE /\ loopPc' = [loopPc EXCEPT ![l] = "ended"]
            /\ UNCHANGED rounds
    /\ UNCHANGED is_updating
    /\ UNCHANGED docVars
    /\ UNCHANGED chatVars
    /\ UNCHANGED cargoVars
    /\ UNCHANGED cacheVars
    /\ UNCHANGED voyageVars
    /\ UNCHANGED bunker
    /\ UNCHANGED pdaVars
    /\ UNCHANGED portVars
    /\ UNCHANGED marketVars

\* stop_continuous_updates
stop_continuous_updates ==
    /\ is_updating' = FALSE
    /\ UNCHANGED <<loopPc, rounds>>
    /\ UNCHANGED docVars
    /\ UNCHANGED chatVars
    /\ UNCHANGED cargoVars
    /\ UNCHANGED cacheVars
    /\ UNCHANGED voyageVars
    /\ UNCHANGED bunker
    /\ UNCHANGED pdaVars
    /\ UNCHANGED portVars
    /\ UNCHANGED marketVars

\* the manager as constructed: no loop started
AisIdle ==
    /\ is_updating = FALSE
    /\ loopPc = [l \in LoopIds |-> "absent"]
    /\ rounds = [l \in LoopIds |-> 0]

\* the loops that have not returned
RunningLoops == { l \in LoopIds : loopPc[l] = "sleeping" }

(***************************************************************************)
(* DocumentAnalyzer                                                        *)
(*                                                                         *)
(* self.documents is a sequence of [doc_id, content, type, uploaded_at] in *)
(* insertion order, a content a sequence of words; self.analysis_cache is  *)
(* a function from cache keys to analyses.                                 *)
(***************************************************************************)
DocIds == {"sample_charter", "d2"}

\* a doc_id no document is stored under
UnknownDocId == "d9"

DocContents == { <<"laytime">>, <<"freight", "rate">> }

DocTypes == {"Charter Party Agreement", "Bill of Lading"}

Queries == {"q1", "q2", "q3"}

\* hash(query): an integer per string; q1 and q3 collide
Hash(query) ==
    CASE query = "q1" -> 17
      [] query = "q2" -> -4
      [] query = "q3" -> 17

\* f"{doc_id}_{hash(query)}"
AnalysisKey(doc_id, query) == << doc_id, Hash(query) >>

StoredIds == { documents[i].doc_id : i \in DOMAIN documents }

\* self.documents[doc_id]
DocumentOf(doc_id) ==
    documents[CHOOSE i \in DOMAIN documents : documents[i].doc_id = doc_id]

NoDocumentInfo == [document_id |-> "None", type |-> "None", uploaded_at |-> 0,
                   content_length |-> 0]

\* the document_info of the analysis of a document
DocumentInfo(doc) ==
    [document_id |-> doc.doc_id, type |-> doc.type, uploaded_at |-> doc.uploaded_at,
     content_length |-> Len(doc.content)]

\* the dict built at lines 459-494
ComprehensiveAnalysis(doc) ==
    [type |-> "comprehensive_document_analysis", error |-> "None",
     document_info |-> DocumentInfo(doc)]

AnalysisError(error) ==
    [type |-> "error", error |-> error, document_info |-> NoDocumentInfo]

NoDocResult == [type |-> "None", error |-> "None", document_info |-> NoDocumentInfo]

NoDocCall == [op |-> "none", query |-> "None", doc_id |-> "None"]

\* self.documents[doc_id] = {...}: a new key is appended, an existing one
\* keeps its place
StoreDocument(doc) ==
    IF doc.doc_id \in StoredIds
    THEN [i \in DOMAIN documents |->
             IF documents[i].doc_id = doc.doc_id THEN doc ELSE documents[i]]
    ELSE Append(documents, doc)

\* a plausible slip: the analysis cache is kept when a document is stored
add_document_KeepsCache(doc_id, content, doc_type) ==
    /\ docClock < MaxUploads
    /\ docClock' = docClock + 1
    /\ documents' = StoreDocument([doc_id |-> doc_id, content |-> content,
                                   type |-> doc_type, uploaded_at |-> docClock + 1])
    /\ UNCHANGED analysis_cache
    /\ docCall' = [op |-> "add_document", query |-> "None", doc_id |-> doc_id]
    /\ docResult' = NoDocResult
    /\ UNCHANGED aisVars
    /\ UNCHANGED chatVars
    /\ UNCHANGED cargoVars
    /\ UNCHANGED cacheVars
    /\ UNCHANGED voyageVars
    /\ UNCHANGED bunker
    /\ UNCHANGED pdaVars
    /\ UNCHANGED portVars
    /\ UNCHANGED marketVars

\* add_document: the document is stored with the time of the call and the
\* analysis cache is emptied
add_document(doc_id, content, doc_type) ==
    /\ docClock < MaxUploads
    /\ docClock' = docClock + 1
    /\ documents' = StoreDocument([doc_id |-> doc_id, content |-> content,
                                   type |-> doc_type, uploaded_at |-> docClock + 1])
    /\ analysis_cache' = EmptyDict
    /\ docCall' = [op |-> "add_document", query |-> "None", doc_id |-> doc_id]
    /\ docResult' = NoDocResult
    /\ UNCHANGED aisVars
    /\ UNCHANGED chatVars
    /\ UNCHANGED cargoVars
    /\ UNCHANGED cacheVars
    /\ UNCHANGED voyageVars
    /\ UNCHANGED bunker
    /\ UNCHANGED pdaVars
    /\ UNCHANGED portVars
    /\ UNCHANGED marketVars

\* the doc_id analyze_document works with: the first key when none is given
ResolvedDocId(doc_id) ==
    IF doc_id = "None" /\ documents # <<>> THEN documents[1].doc_id ELSE doc_id

\* analyze_document
analyze_document(query, doc_id) ==
    LET id  == ResolvedDocId(doc_id)
        key == AnalysisKey(id, query)
    IN  /\ docCall' = [op |-> "analyze_document", query |-> query, doc_id |-> doc_id]
        /\ IF documents = <<>>
           THEN /\ docResult' = AnalysisError("No documents available for analysis")
                /\ UNCHANGED analysis_cache
           ELSE IF id \notin StoredIds
           THEN /\ docResult' = AnalysisError("Document not found")
                /\ UNCHANGED analysis_cache
           ELSE IF key \in DOMAIN analysis_cache
           THEN /\ docResult' = analysis_cache[key]
                /\ UNCHANGED analysis_cache
           ELSE /\ docResult' = ComprehensiveAnalysis(DocumentOf(id))
                /\ analysis_cache' =
                      DictSet(analysis_cache, key, ComprehensiveAnalysis(DocumentOf(id)))
        /\ UNCHANGED <<documents, docClock>>
        /\ UNCHANGED aisVars
        /\ UNCHANGED chatVars
        /\ UNCHANGED cargoVars
        /\ UNCHANGED cacheVars
        /\ UNCHANGED voyageVars
        /\ UNCHANGED bunker
        /\ UNCHANGED pdaVars
        /\ UNCHANGED portVars
        /\ UNCHANGED marketVars

\* the analyzer as constructed: no document, nothing cached
DocIdle ==
    /\ documents = <<>>
    /\ analysis_cache = EmptyDict
    /\ docClock = 0
    /\ docCall = NoDocCall
    /\ docResult = NoDocResult

\* the client sends its next message and echoes the context of the last
\* response
NextRequest(message) ==
    /\ branch \notin {"none", "done"}
    /\ request' = [message |-> message,
                   conversation_context |-> response.conversation_context]
    /\ branch' = "none"
    /\ UNCHANGED <<response, classified>>
    /\ UNCHANGED cargoVars
    /\ UNCHANGED cacheVars
    /\ UNCHANGED voyageVars
    /\ UNCHANGED bunker
    /\ UNCHANGED pdaVars
    /\ UNCHANGED portVars
    /\ UNCHANGED marketVars
    /\ UNCHANGED aisVars
    /\ UNCHANGED docVars

\* no chat request
ChatIdle ==
    /\ request    = NoRequest
    /\ response   = NoResponse
    /\ classified = NoClassification
    /\ branch     = "done"

\* the profitability dict when there is no match
NoProfitability ==
    [error |-> TRUE, revenue |-> 0, total_costs |-> 0, profit |-> 0, freight_rate |-> 0,
     fuel_cost_per_day |-> 0, port_costs |-> 0, other_costs |-> 0]

\* process() of the cargo matcher has not returned
NoCargoResult ==
    [agent |-> "", status |-> "none", required_info |-> <<>>,
     profitability |-> NoProfitability]

\* no cargo request
CargoIdle ==
    /\ cargoRequest = [cargo_type |-> "None", quantity |-> 0]
    /\ matches      = <<>>
    /\ cargoPc      = "idle"
    /\ cargoResult  = NoCargoResult

\* the caches as constructed, no call in progress
CacheIdle ==
    /\ now     = 0
    /\ cache   = [c \in CacheNames |-> [k \in CacheKeys |-> NoEntry]]
    /\ calls   = [r \in CallIds |-> NoCall]
    /\ fetches = 0

\* no voyage request
VoyageIdle ==
    /\ voyageRequest = NoVoyageRequest
    /\ bunker        = NoBunker
    /\ plan          = NoPlan
    /\ voyagePc      = "idle"
    /\ voyageCall    = NoVoyageCall
    /\ voyageResult  = NoVoyageResult

\* no market insights agent
MarketIdle ==
    /\ marketRequest = NoMarketRequest
    /\ marketResult  = NoMarketResult
    /\ freight_benchmarks = FreightBenchmarks
    /\ marketPc = "absent"

\* no port intelligence request
PortIdle ==
    /\ portRequest = NoPortRequest
    /\ portResult  = NoPortResult
    /\ portPc      = "idle"

\* no PDA request
PdaIdle ==
    /\ pdaRequest = NoPdaRequest
    /\ estimates  = NoEstimates
    /\ pdaPc      = "idle"

\* a request has arrived and is not answered yet
ChatInit ==
    /\ request \in [message : Messages, conversation_context : Contexts]
    /\ response   = NoResponse
    /\ classified = NoClassification
    /\ branch     = "none"
    /\ AisIdle
    /\ DocIdle
    /\ CargoIdle
    /\ CacheIdle
    /\ VoyageIdle
    /\ PdaIdle
    /\ PortIdle
    /\ MarketIdle

ChatNext == \E ext \in Outcomes : Chat(ext)

SpecChat == ChatInit /\ [][ChatNext]_vars

(***************************************************************************)
(* Properties of classify_intent and /api/chat                             *)
(***************************************************************************)
Answered == branch \notin {"none", "done"}

ReqAgent == CurrentAgentOf(request.conversation_context)
ReqText  == LowerMsg(request.message)

\* the sticky rule of the request's agent fires
StickyFires == ReqAgent \in SpecializedAgents /\ AnyIn(AgentWords(ReqAgent), ReqText)

\* C1: with a specialized current_agent and a text that holds one of that
\* agent's keywords, classify_intent returns that agent's intent with
\* confidence 0.98, whatever general-rule keywords the text also holds.
C1_StickyPrecedence ==
    (Answered /\ StickyFires) => classified = [intent |-> ReqAgent, confidence |-> 98]

\* market_insights context, a market keyword and a vessel_tracking keyword
C1_Witness ==
    /\ Answered
    /\ ReqAgent = "market_insights"
    /\ AnyIn(MarketWords, ReqText)
    /\ AnyIn(TrackingWords, ReqText)
    /\ classified.intent = "market_insights"

DisplayName(agent) ==
    CASE agent = "cargo_matching"    -> "Cargo Matcher"
      [] agent = "market_insights"   -> "Market Insights"
      [] agent = "port_intelligence" -> "Port Intelligence"
      [] agent = "pda_management"    -> "PDA Management"
      [] OTHER                       -> "Captain Router"

\* C2: a request of a specialized agent whose message holds a keyword of that
\* agent is answered with status success by that agent, never by the router.
C2_AgentQueriesNeverFallBack ==
    (Answered /\ StickyFires) =>
        /\ response.status = "success"
        /\ response.agent = DisplayName(ReqAgent)
        /\ response.agent # "Captain Router"

\* a pda_management request with a PDA keyword and a document keyword, answered
C2_Witness ==
    /\ Answered
    /\ ReqAgent = "pda_management"
    /\ AnyIn(PdaWords, ReqText)
    /\ AnyIn(DocumentWords, ReqText)
    /\ response.agent = "PDA Management"

\* the decision list the general rules are said to form: intent, keyword set
RuleOrder ==
    << [intent |-> "vessel_tracking",   words |-> TrackingWords \cup VesselWords],
       [intent |-> "voyage_planning",   words |-> VoyageWords],
       [intent |-> "weather",           words |-> WeatherWords],
       [intent |-> "document_analysis", words |-> DocumentWords] >>

\* the fixed confidence of a rule for a text it matches
RuleConfidence(intent, text) ==
    CASE intent = "vessel_tracking"   -> IF AnyIn(TrackingWords, text) THEN 95 ELSE 90
      [] intent = "voyage_planning"   -> 95
      [] intent = "weather"           -> 90
      [] intent = "document_analysis" -> 95
      [] OTHER                        -> 50

\* the intent of the first rule of RuleOrder that matches, general if none does
FirstMatch(text) ==
    LET hits == { i \in DOMAIN RuleOrder : AnyIn(RuleOrder[i].words, text) }
    IN  IF hits = {} THEN "general"
        ELSE RuleOrder[CHOOSE i \in hits : \A j \in hits : i <= j].intent

\* C3: when no sticky rule fires the result is that of the first rule, in the
\* order vessel_tracking, voyage_planning, weather, document_analysis, that
\* has a keyword in the text, and (general, 0.5) when none has, also for the
\* empty text.
C3_OrderedFirstMatch ==
    (Answered /\ ~StickyFires) =>
        /\ classified.intent = FirstMatch(ReqText)
        /\ classified.confidence = RuleConfidence(FirstMatch(ReqText), ReqText)
        /\ (request.message = <<>> => classified = [intent |-> "general", confidence |-> 50])

\* no sticky rule, a vessel keyword and a voyage keyword: vessel_tracking wins
C3_Witness ==
    /\ Answered
    /\ ~StickyFires
    /\ AnyIn(VesselWords, ReqText)
    /\ AnyIn(VoyageWords, ReqText)
    /\ classified = [intent |-> "vessel_tracking", confidence |-> 90]

\* confidence below which a request is left to the general responder (0.6)
RoutingThreshold == 60

\* the branches of chat() that are handlers of one intent
HandlerBranches ==
    SpecializedAgents \cup {"vessel_tracking", "voyage_planning", "weather", "document_analysis"}

\* C4: a handler of a specific intent answers only requests whose intent is
\* not general and whose confidence is at least the threshold; requests
\* classified general or below the threshold go to the fallback responder;
\* no response of such a handler carries a confidence below the threshold.
C4_RoutingGate ==
    Answered =>
        /\ (branch \in HandlerBranches =>
               /\ classified.intent # "general"
               /\ classified.confidence >= RoutingThreshold
               /\ response.confidence >= RoutingThreshold)
        /\ ((classified.intent = "general" \/ classified.confidence < RoutingThreshold)
               => branch = "fallback")

\* a request classified with the lowest rule confidence (0.9) and answered by
\* the handler of its intent
C4_Witness ==
    /\ branch = "vessel_tracking"
    /\ classified.confidence = 90
    /\ response.agent = "Vessel Tracker"
    /\ response.confidence = 90

(***************************************************************************)
(* CargoMatchingAgent                                                      *)
(***************************************************************************)
\* the keys of self.cargo_types
CargoTypes == { "coal", "iron_ore", "grain", "oil", "lng", "lpg", "containers" }

\* the keys of self.vessel_capacities, in the order of the dict
VesselOrder == << "panamax", "capesize", "supramax", "handysize", "vlcc", "aframax" >>

VesselTypes == { VesselOrder[i] : i \in DOMAIN VesselOrder }

\* self.vessel_capacities[v]["dwt"]
Dwt(v) ==
    CASE v = "panamax"   -> 75000
      [] v = "capesize"  -> 180000
      [] v = "supramax"  -> 58000
      [] v = "handysize" -> 35000
      [] v = "vlcc"      -> 300000
      [] v = "aframax"   -> 120000

\* quantities in tons; 0 stands for both None and 0, which every test of the
\* matcher ("if quantity") treats alike
Quantities ==
    { 0, 20000, 35000, 40600, 50000, 52500, 58000, 71250, 75000, 100000,
      120000, 171000, 180000, 250000, 300000, 300001 }

\* a plausible slip: the gas-carrier restriction is missing
can_carry_cargo_NoGasCheck(vessel_type, cargo_type, quantity) ==
    IF quantity # 0 /\ quantity > Dwt(vessel_type) THEN FALSE
    ELSE IF cargo_type = "containers" /\ vessel_type \notin {"panamax", "capesize"} THEN FALSE
    ELSE TRUE

\* _can_carry_cargo
can_carry_cargo(vessel_type, cargo_type, quantity) ==
    IF quantity # 0 /\ quantity > Dwt(vessel_type) THEN FALSE
    ELSE IF cargo_type = "containers" /\ vessel_type \notin {"panamax", "capesize"} THEN FALSE
    ELSE IF cargo_type \in {"lng", "lpg"} /\ vessel_type \notin {"vlcc", "aframax"} THEN FALSE
    ELSE TRUE

\* a plausible slip: a heavier penalty for over-utilization
UtilizationBonus_HeavyPenalty(vessel_type, quantity) ==
    IF quantity = 0 THEN 0
    ELSE IF 70 * Dwt(vessel_type) <= 100 * quantity /\ 100 * quantity <= 95 * Dwt(vessel_type)
    THEN 20
    ELSE IF 50 * Dwt(vessel_type) <= 100 * quantity /\ 100 * quantity < 70 * Dwt(vessel_type)
    THEN 10
    ELSE IF 100 * quantity > 95 * Dwt(vessel_type)
    THEN -20
    ELSE 0

\* the utilization bonus of _calculate_match_score; utilization is
\* quantity / dwt * 100, compared here without the division
UtilizationBonus(vessel_type, quantity) ==
    IF quantity = 0 THEN 0
    ELSE IF 70 * Dwt(vessel_type) <= 100 * quantity /\ 100 * quantity <= 95 * Dwt(vessel_type)
    THEN 20
    ELSE IF 50 * Dwt(vessel_type) <= 100 * quantity /\ 100 * quantity < 70 * Dwt(vessel_type)
    THEN 10
    ELSE IF 100 * quantity > 95 * Dwt(vessel_type)
    THEN -10
    ELSE 0

\* the score before the final clamp
RawScore(vessel_type, cargo_type, quantity) ==
    50 + UtilizationBonus(vessel_type, quantity)
       + (IF cargo_type \in {"coal", "iron_ore", "grain"}
             /\ vessel_type \in {"panamax", "capesize", "supramax"} THEN 15 ELSE 0)
       + (IF cargo_type = "oil" /\ vessel_type \in {"vlcc", "aframax"} THEN 15 ELSE 0)
       + (IF cargo_type = "containers" /\ vessel_type \in {"panamax", "capesize"}
          THEN 10 ELSE 0)
       + (IF vessel_type \in {"panamax", "supramax"} THEN 5 ELSE 0)

\* _calculate_match_score
calculate_match_score(vessel_type, cargo_type, quantity) ==
    Min(100, Max(0, RawScore(vessel_type, cargo_type, quantity)))

\* min(100, quantity / dwt * 100) if quantity else None, in tenths of a
\* percent, truncated; -1 stands for None
CapacityUtilization(vessel_type, quantity) ==
    IF quantity = 0 THEN -1
    ELSE Min(1000, (quantity * 1000) \div Dwt(vessel_type))

\* the match record built in the loop of _match_cargo_vessels
Match(vessel_type, cargo_type, quantity) ==
    [vessel_type |-> vessel_type, cargo_type |-> cargo_type,
     match_score |-> calculate_match_score(vessel_type, cargo_type, quantity),
     capacity_utilization |-> CapacityUtilization(vessel_type, quantity)]

\* the loop of lines 124-138: the eligible vessels, in dict order
RECURSIVE Eligible(_, _, _)
Eligible(i, cargo_type, quantity) ==
    IF i > Len(VesselOrder) THEN <<>>
    ELSE (IF can_carry_cargo(VesselOrder[i], cargo_type, quantity)
          THEN << Match(VesselOrder[i], cargo_type, quantity) >>
          ELSE <<>>) \o Eligible(i + 1, cargo_type, quantity)

\* a plausible slip: a sort that is not stable (ascending sort, then reversed)
InsertByScore_Unstable(m, sorted) ==
    LET before == { i \in DOMAIN sorted : sorted[i].match_score > m.match_score }
        k == Cardinality(before)
    IN  SubSeq(sorted, 1, k) \o << m >> \o SubSeq(sorted, k + 1, Len(sorted))

\* one step of a stable descending sort: m goes behind every element whose
\* score is at least its own
InsertByScore(m, sorted) ==
    LET before == { i \in DOMAIN sorted : sorted[i].match_score >= m.match_score }
        k == Cardinality(before)
    IN  SubSeq(sorted, 1, k) \o << m >> \o SubSeq(sorted, k + 1, Len(sorted))

\* matches.sort(key=lambda x: x["match_score"], reverse=True)
RECURSIVE SortByScore(_)
SortByScore(ms) ==
    IF ms = <<>> THEN <<>>
    ELSE InsertByScore(ms[Len(ms)], SortByScore(SubSeq(ms, 1, Len(ms) - 1)))

\* _match_cargo_vessels
match_cargo_vessels(req) ==
    IF req.cargo_type = "None" THEN <<>>
    ELSE SortByScore(Eligible(1, req.cargo_type, req.quantity))

\* freight_rates.get(cargo_type, 20), in dollars per ton
FreightRate(cargo_type) ==
    CASE cargo_type = "coal"       -> 15
      [] cargo_type = "iron_ore"   -> 18
      [] cargo_type = "grain"      -> 20
      [] cargo_type = "oil"        -> 25
      [] cargo_type = "lng"        -> 30
      [] cargo_type = "lpg"        -> 28
      [] cargo_type = "containers" -> 35
      [] OTHER                     -> 20

\* a plausible slip: no default when the bunker source fails
CargoFuelPrice_NoDefault(b) ==
    IF b.kind = "price" THEN b.current_price ELSE 0

\* the fuel price _calculate_profitability works with
CargoFuelPrice(b) ==
    IF b.kind = "price" THEN b.current_price ELSE 500

\* _calculate_profitability, in dollars (without profit_margin); b is what
\* getBunkerPrice() does
calculate_profitability(ms, req, b) ==
    IF ms = <<>> THEN NoProfitability
    ELSE LET revenue         == req.quantity * FreightRate(req.cargo_type)
             daily_fuel_cost == (Dwt(ms[1].vessel_type) \div 1000) * CargoFuelPrice(b)
             total_costs     == daily_fuel_cost + 15000 + 5000
         IN  [error |-> FALSE, revenue |-> revenue, total_costs |-> total_costs,
              profit |-> revenue - total_costs,
              freight_rate |-> FreightRate(req.cargo_type),
              fuel_cost_per_day |-> daily_fuel_cost,
              port_costs |-> 15000, other_costs |-> 5000]

\* process(), from the parsed request to the returned dict; b is what
\* getBunkerPrice() does
MatchCargoVessels(b) ==
    /\ cargoPc = "parsed"
    /\ matches' = match_cargo_vessels(cargoRequest)
    /\ cargoResult' =
          [agent |-> "Cargo Matcher", status |-> "success", required_info |-> <<>>,
           profitability |-> calculate_profitability(matches', cargoRequest, b)]
    /\ bunker' = IF matches' = <<>> THEN bunker ELSE b
    /\ cargoPc' = "matched"
    /\ UNCHANGED cargoRequest
    /\ UNCHANGED chatVars
    /\ UNCHANGED cacheVars
    /\ UNCHANGED voyageVars
    /\ UNCHANGED pdaVars
    /\ UNCHANGED portVars
    /\ UNCHANGED marketVars
    /\ UNCHANGED aisVars
    /\ UNCHANGED docVars

\* a cargo request has been parsed
CargoInit ==
    /\ cargoRequest \in [cargo_type : CargoTypes \cup {"None"}, quantity : Quantities]
    /\ matches = <<>>
    /\ cargoPc = "parsed"
    /\ cargoResult = NoCargoResult
    /\ ChatIdle
    /\ AisIdle
    /\ DocIdle
    /\ CacheIdle
    /\ VoyageIdle
    /\ PdaIdle
    /\ PortIdle
    /\ MarketIdle

CargoNext == \E b \in BunkerOutcomes : MatchCargoVessels(b)

SpecCargo == CargoInit /\ [][CargoNext]_vars

(***************************************************************************)
(* Properties of the cargo matcher                                         *)
(***************************************************************************)
\* C6: every entry of the list returned by _match_cargo_vessels has a score
\* in [0,100]; no vessel with a DWT below the quantity, no vessel other than
\* panamax/capesize for containers and none other than vlcc/aframax for lng
\* or lpg appears; match('lng', 50000) yields exactly vlcc and aframax.
C6_EligibleAndScored ==
    cargoPc = "matched" =>
        /\ \A i \in DOMAIN matches :
              /\ matches[i].match_score >= 0
              /\ matches[i].match_score <= 100
              /\ Dwt(matches[i].vessel_type) >= cargoRequest.quantity
              /\ (cargoRequest.cargo_type = "containers"
                     => matches[i].vessel_type \in {"panamax", "capesize"})
              /\ (cargoRequest.cargo_type \in {"lng", "lpg"}
                     => matches[i].vessel_type \in {"vlcc", "aframax"})
        /\ (cargoRequest = [cargo_type |-> "lng", quantity |-> 50000]
               => /\ Len(matches) = 2
                  /\ { matches[i].vessel_type : i \in DOMAIN matches } = {"vlcc", "aframax"})

\* match('lng', 50000) has been answered with two vessels
C6_Witness ==
    /\ cargoPc = "matched"
    /\ cargoRequest = [cargo_type |-> "lng", quantity |-> 50000]
    /\ Len(matches) = 2

\* position of a vessel type in the static vocabulary
VesselIndex(v) == CHOOSE i \in DOMAIN VesselOrder : VesselOrder[i] = v

\* C7: the list is sorted by match_score in non-increasing order, and
\* matches of equal score keep the order of the vessel vocabulary.
C7_SortedStable ==
    cargoPc = "matched" =>
        \A i, j \in DOMAIN matches :
            i < j =>
               /\ matches[i].match_score >= matches[j].match_score
               /\ (matches[i].match_score = matches[j].match_score
                      => VesselIndex(matches[i].vessel_type)
                           < VesselIndex(matches[j].vessel_type))

\* a ranked list in which two different vessels tie and a later one scores less
C7_Witness ==
    /\ cargoPc = "matched"
    /\ \E i, j, k \in DOMAIN matches :
          /\ i < j /\ j < k
          /\ matches[i].match_score = matches[j].match_score
          /\ matches[j].match_score > matches[k].match_score

(***************************************************************************)
(* The caches: specification and properties                                *)
(***************************************************************************)
CacheInit ==
    /\ CacheIdle
    /\ ChatIdle
    /\ AisIdle
    /\ DocIdle
    /\ CargoIdle
    /\ VoyageIdle
    /\ PdaIdle
    /\ PortIdle
    /\ MarketIdle

CacheNext ==
    \/ \E r \in CallIds, c \in CacheNames : \E k \in KeysInUse(c) : StartCall(r, c, k)
    \/ \E r \in CallIds : FinishCallOk(r)
    \/ \E r \in CallIds : FinishCallNoCandidates(r)
    \/ \E r \in CallIds : FinishCallFailed(r)
    \/ \E d \in TimeSteps : Tick(d)

SpecCache == CacheInit /\ [][CacheNext]_vars

\* call r looks into the cache in this step
Starts(r) == calls[r].pc \in {"idle", "done"} /\ calls'[r] # calls[r]

\* call r gets the adapter's answer in this step
Finishes(r) == calls[r].pc = "fetching" /\ calls'[r].pc = "done"

\* C5: a value stored at time T is returned unchanged, without a call of the
\* adapter, by a read at T+d with d < TTL (1800 s weather, 3600 s LLM); with
\* d >= TTL the entry counts as absent: the adapter is called, on success
\* the entry is replaced with a new timestamp, and the stale value is never
\* returned, also when the refresh fails.
C5_CacheTTL ==
    [][ \A r \in CallIds :
          /\ Starts(r) =>
               LET c == calls'[r].cache
                   k == calls'[r].key
                   e == cache[c][k]
                   ttl == IF c = "weather" THEN 1800 ELSE 3600
               IN  /\ (e # NoEntry /\ now - e.timestamp < ttl) =>
                          /\ calls'[r].pc = "done"
                          /\ calls'[r].result = e.data
                          /\ ~calls'[r].called
                          /\ fetches' = fetches
                          /\ cache' = cache
                   /\ (e = NoEntry \/ now - e.timestamp >= ttl) =>
                          /\ calls'[r].pc = "fetching"
                          /\ calls'[r].called
          /\ Finishes(r) =>
               LET c == calls[r].cache
                   k == calls[r].key
               IN  \/ /\ calls'[r].result.kind \in {"ok", "error"}
                      /\ calls'[r].result.v = fetches'
                      /\ fetches' = fetches + 1
                      /\ cache'[c][k] = [data |-> calls'[r].result, timestamp |-> now]
                   \/ /\ calls'[r].result = FailureResult(c)
                      /\ fetches' = fetches
                      /\ cache' = cache
      ]_vars

\* a weather entry was served at age 1799 without the adapter, and a read of
\* an entry older than its TTL whose refresh failed returned the error value
\* while the stale entry is still stored
C5_Witness ==
    \E r1, r2 \in CallIds, k \in CacheKeys :
        /\ r1 # r2
        /\ cache["weather"][k] # NoEntry
        /\ calls[r1] = [pc |-> "done", cache |-> "weather", key |-> k,
                        checkedAt |-> cache["weather"][k].timestamp + 1799,
                        called |-> FALSE, result |-> cache["weather"][k].data]
        /\ calls[r2].pc = "done"
        /\ calls[r2].cache = "weather"
        /\ calls[r2].key = k
        /\ calls[r2].called
        /\ calls[r2].checkedAt - cache["weather"][k].timestamp >= 1800
        /\ calls[r2].result = [kind |-> "error", v |-> 0]

\* calls r1 and r2 both went to the adapter for the same key and both got
\* an answer
BothFetched(r1, r2) ==
    /\ r1 # r2
    /\ calls[r1].pc = "done" /\ calls[r2].pc = "done"
    /\ calls[r1].called /\ calls[r2].called
    /\ calls[r1].cache = calls[r2].cache
    /\ calls[r1].key = calls[r2].key
    /\ calls[r1].result.kind = "ok" /\ calls[r2].result.kind = "ok"

\* C18: two calls for the same key that both miss may both reach the
\* adapter; each returns the value it fetched itself, not the other's, and
\* afterwards the cache holds for that key one entry whose value is one of
\* the two fetched values.
C18_ConcurrentMisses ==
    \A r1, r2 \in CallIds :
        BothFetched(r1, r2) =>
            LET entry == cache[calls[r1].cache][calls[r1].key]
            IN  /\ calls[r1].result # calls[r2].result
                /\ calls[r1].result.v <= fetches /\ calls[r2].result.v <= fetches
                /\ entry # NoEntry
                /\ entry.data \in { calls[r1].result, calls[r2].result }
                /\ entry.data.v >= calls[r1].result.v
                /\ entry.data.v >= calls[r2].result.v

\* both calls looked into the empty cache at time 0, both fetched, and the
\* entry holds the value of the one that finished last
C18_Witness ==
    /\ BothFetched("r1", "r2")
    /\ calls["r1"].checkedAt = 0 /\ calls["r2"].checkedAt = 0
    /\ calls["r1"].cache = "llm" /\ calls["r1"].key = "k1"
    /\ calls["r1"].result.v = 2 /\ calls["r2"].result.v = 1
    /\ cache["llm"]["k1"] = [data |-> calls["r1"].result, timestamp |-> 0]

\* C15: an exception raised while a request is handled ends in a response
\* with status 'error' whose text is a fixed generic message that holds
\* neither the exception's message nor another internal detail.
C15_GenericErrorText ==
    (Answered /\ branch = "error") =>
        /\ response.status = "error"
        /\ response.text.detail = "none"

(***************************************************************************)
(* The voyage planner: specification and properties                        *)
(***************************************************************************)
\* a voyage request has been parsed
VoyageInit ==
    /\ voyageRequest \in VoyageRequests
    /\ bunker   = NoBunker
    /\ plan     = NoPlan
    /\ voyagePc = "parsed"
    /\ voyageCall   = NoVoyageCall
    /\ voyageResult = NoVoyageResult
    /\ ChatIdle
    /\ AisIdle
    /\ DocIdle
    /\ CargoIdle
    /\ CacheIdle
    /\ PdaIdle
    /\ PortIdle
    /\ MarketIdle

VoyageNext == \E b \in BunkerOutcomes, w \in WeatherOutcomes : PlanVoyage(b, w)

SpecVoyage == VoyageInit /\ [][VoyageNext]_vars

\* the fee the canal's formula gives for a draft in tenths of a metre:
\* max(min_fee, estimated_tonnage * fee_per_ton), with estimated_tonnage
\* draft/20 * 100000 (Suez, 8.5 per ton) and draft/15 * 80000 (Panama, 5.25)
CanalFormula(canal, draft) ==
    CASE canal = "Suez"   -> Max(5000, draft * 4250)
      [] canal = "Panama" -> Max(800, draft * 2800)
      [] OTHER            -> 0

\* C8: in every route option (primary, alternative, what_if), via_canal
\* 'None' implies canal_fees = 0, and via_canal 'Suez' or 'Panama' implies
\* that canal_fees is the fee of that canal's formula.
C8_CanalFeeMatchesCanal ==
    voyagePc = "planned" =>
        \A i \in DOMAIN plan.routes :
            LET r == plan.routes[i]
            IN  /\ r.via_canal \in {"None", "Suez", "Panama"}
                /\ (r.via_canal = "None" => r.canal_fees = 0)
                /\ (r.via_canal \in {"Suez", "Panama"}
                       => r.canal_fees = CanalFormula(r.via_canal, plan.vessel.draft))

\* a plan with a Panama primary route, a Cape alternative and a Suez what-if
C8_Witness ==
    /\ voyagePc = "planned"
    /\ Len(plan.routes) = 3
    /\ plan.routes[1].via_canal = "Panama" /\ plan.routes[1].canal_fees > 0
    /\ plan.routes[2].via_canal = "None"   /\ plan.routes[2].type = "alternative"
    /\ plan.routes[3].via_canal = "Suez"   /\ plan.routes[3].type = "what_if"

\* the rows of the route table whose ports are the requested ones
TableRows(origin, destination) ==
    { i \in DOMAIN Routes : Routes[i].orig = LowerPort(origin)
                              /\ Routes[i].dest = LowerPort(destination) }

\* C19: without route comparison the plan has exactly one route, of type
\* 'primary'; its distance is the distance of the route table, 8000 via Suez
\* when the table has no route for the ports; its canal fee is
\* max(min_fee, estimated_tonnage x fee_per_ton) of its canal.  Singapore to
\* Rotterdam with a panamax is via Suez, 8500 nm, fee 616250.
C19_SinglePrimaryRoute ==
    (voyagePc = "planned" /\ ~voyageRequest.compare_routes) =>
        LET r == plan.routes[1]
        IN  /\ Len(plan.routes) = 1
            /\ r.type = "primary"
            /\ \A i \in TableRows(voyageRequest.origin, voyageRequest.destination) :
                  /\ r.distance = Routes[i].distance
                  /\ r.via_canal = (IF Routes[i].via_suez THEN "Suez" ELSE "Panama")
            /\ find_route_key(voyageRequest.origin, voyageRequest.destination) = 0 =>
                  /\ r.distance = 8000
                  /\ r.via_canal = "Suez"
            /\ r.distance \in { Routes[i].distance : i \in DOMAIN Routes } \cup { 8000 }
            /\ r.canal_fees = CanalFormula(r.via_canal, plan.vessel.draft)
            /\ (voyageRequest.origin = "Singapore" /\ voyageRequest.destination = "rotterdam"
                  /\ voyageRequest.vessel_type = "panamax") =>
                  /\ r.via_canal = "Suez"
                  /\ r.distance = 8500
                  /\ r.canal_fees = 616250

\* the plan for Singapore to Rotterdam with a panamax, no comparison
C19_Witness ==
    /\ voyagePc = "planned"
    /\ ~voyageRequest.compare_routes
    /\ voyageRequest.origin = "Singapore" /\ voyageRequest.destination = "rotterdam"
    /\ voyageRequest.vessel_type = "panamax"
    /\ Len(plan.routes) = 1
    /\ plan.routes[1].distance = 8500
    /\ plan.routes[1].canal_fees = 616250

\* the plan for a pair of ports the route table does not have
C19_WitnessMiss ==
    /\ voyagePc = "planned"
    /\ ~voyageRequest.compare_routes
    /\ voyageRequest.origin = "rotterdam" /\ voyageRequest.destination = "tokyo"
    /\ plan.routes[1].distance = 8000
    /\ plan.routes[1].via_canal = "Suez"

\* the canals a request names that the primary route does not use
WhatIfCanals ==
    { canal \in { "Suez", "Panama" } :
        /\ (canal = "Suez" => voyageRequest.via_suez)
        /\ (canal = "Panama" => voyageRequest.via_panama)
        /\ plan.routes[1].via_canal # canal }

\* C20: with route comparison the routes start with the primary route and
\* hold a Cape alternative of type 'alternative' with 1.4 times the primary
\* distance and canal fee 0, and for every canal the request names and the
\* primary route does not use a route of type 'what_if' via that canal with
\* 0.8 times the primary distance and that canal's fee.
C20_ComparisonRoutes ==
    (voyagePc = "planned" /\ voyageRequest.compare_routes) =>
        /\ plan.routes[1].type = "primary"
        /\ \E i \in DOMAIN plan.routes :
              /\ plan.routes[i].type = "alternative"
              /\ 10 * plan.routes[i].distance = 14 * plan.routes[1].distance
              /\ plan.routes[i].canal_fees = 0
        /\ \A canal \in WhatIfCanals :
              \E i \in DOMAIN plan.routes :
                  /\ plan.routes[i].type = "what_if"
                  /\ plan.routes[i].via_canal = canal
                  /\ 10 * plan.routes[i].distance = 8 * plan.routes[1].distance
                  /\ plan.routes[i].canal_fees = CanalFormula(canal, plan.vessel.draft)

\* the total cost _calculate_voyage_costs gives for a route of the plan
TotalCostOfRoute(r) == calculate_voyage_costs(r, plan.vessel, bunker).total_cost

\* C10: whenever route comparison produced an alternative route whose total
\* cost is strictly lower than the primary route's, the recommendations
\* contain the suggestion to consider that alternative.
C10_CheaperAlternativeRecommended ==
    voyagePc = "planned" =>
        \A i \in DOMAIN plan.routes :
            (plan.routes[i].type # "primary"
               /\ TotalCostOfRoute(plan.routes[i]) < plan.costs.total_cost)
            => \E j \in DOMAIN plan.recommendations :
                  plan.recommendations[j].kind = "consider"

Abs(x) == IF x < 0 THEN -x ELSE x

\* the price per ton the bunker source gave, 500 when it gave none
ClaimedBunkerPrice(b) == IF b.kind = "price" THEN b.current_price ELSE 500

\* C11: for every primary route, total_cost = fuel_cost + canal_fees
\* + port_charges (15000) + crew_cost (estimated_days x 500) + other_costs
\* (10000), and fuel_cost is the route's fuel consumption in tons times the
\* bunker price per ton (the source's price, or 500 when it has none).
\* Amounts are compared to the dollar.
C11_VoyageCostSum ==
    (voyagePc = "planned" /\ bunker.kind # "raise") =>
        LET r == plan.routes[1]
            c == plan.costs
        IN  /\ c.port_charges = 1500000
            /\ c.other_costs = 1000000
            /\ c.canal_fees = r.canal_fees * 100
            /\ Abs(c.crew_cost \div 100
                     - (r.estimated_days.n * 500) \div r.estimated_days.d) <= 1
            /\ Abs(c.total_cost - (c.fuel_cost + c.canal_fees + c.port_charges
                                     + c.crew_cost + c.other_costs)) <= 1
            /\ Abs(c.fuel_cost \div 100
                     - (r.fuel_consumption.n * ClaimedBunkerPrice(bunker))
                          \div r.fuel_consumption.d) <= 1

(***************************************************************************)
(* The PDA agent: specification and properties                             *)
(***************************************************************************)
\* a PDA request has been parsed
PdaInit ==
    /\ pdaRequest \in PdaRequests
    /\ estimates = NoEstimates
    /\ pdaPc     = "parsed"
    /\ ChatIdle
    /\ AisIdle
    /\ DocIdle
    /\ CargoIdle
    /\ CacheIdle
    /\ VoyageIdle
    /\ PortIdle
    /\ MarketIdle

PdaNext == EstimatePdaCosts

SpecPDA == PdaInit /\ [][PdaNext]_vars

\* the regional multiplier of a lower-cased port, in tenths
ClaimedRegion(port) ==
    CASE port = "rotterdam" -> <<"europe", 13>>
      [] port = "houston"   -> <<"americas", 12>>
      [] port = "fujairah"  -> <<"middle_east", 9>>
      [] port = "cape_town" -> <<"africa", 11>>
      [] OTHER              -> <<"asia", 10>>

\* the size multiplier of a lower-cased vessel type, in tenths
ClaimedSize(v) ==
    CASE v \in {"vlcc", "capesize"}    -> 15
      [] v \in {"panamax", "supramax"} -> 10
      [] v = "handysize"               -> 8

\* the eleven base items and the two cargo items, in thousandths
ItemSum(e) ==
    e.base_costs.port_dues + e.base_costs.pilotage + e.base_costs.towage
    + e.base_costs.berth_fees + e.base_costs.agency_fees + e.base_costs.documentation
    + e.base_costs.communications + e.base_costs.security + e.base_costs.fresh_water
    + e.base_costs.provisions + e.base_costs.waste_disposal
    + (IF DOMAIN e.cargo_costs = {} THEN 0
       ELSE e.cargo_costs.stevedoring + e.cargo_costs.equipment)

\* the size multiplier in force for a request: that of its vessel type when
\* it names one recognised type, 1.0 when it names none
SizeInForce(req, e) ==
    IF req.vessel_types = <<>> THEN 10
    ELSE IF DOMAIN e.vessel_adjustments = {} THEN 10
    ELSE e.vessel_adjustments.size_multiplier

\* C9: for every estimate and every port, total_cost_per_call is
\* size_multiplier x (sum of base_costs + sum of cargo_costs) rounded to 2
\* decimals; the items are scaled by the regional multiplier of the port
\* (rotterdam europe 1.3, unrecognised port asia 1.0); size_multiplier is 1.5
\* for vlcc/capesize, 1.0 for panamax/supramax, 0.8 for handysize and 1.0
\* when no vessel type is given.
C9_TotalCostPerCall ==
    pdaPc = "estimated" =>
        \A port \in DOMAIN estimates :
            LET e == estimates[port]
                r == ClaimedRegion(LowerName(port))
            IN  /\ 100 * e.total_cost_per_call - 50 <= SizeInForce(pdaRequest, e) * ItemSum(e)
                /\ SizeInForce(pdaRequest, e) * ItemSum(e) < 100 * e.total_cost_per_call + 50
                /\ e.region = r[1] /\ e.multiplier = r[2]
                /\ e.base_costs.port_dues = 25 * r[2]
                /\ e.base_costs.waste_disposal = 2 * r[2]
                /\ (pdaRequest.vessel_types = <<>> => DOMAIN e.vessel_adjustments = {})
                /\ (Len(pdaRequest.vessel_types) = 1
                      /\ LowerName(pdaRequest.vessel_types[1]) # "aframax"
                    => /\ DOMAIN e.vessel_adjustments = {"size_multiplier"}
                       /\ e.vessel_adjustments.size_multiplier
                            = ClaimedSize(LowerName(pdaRequest.vessel_types[1])))

\* the estimate for rotterdam, a vlcc and oil: 1.5 x 1.3 x (0.97 + 0.30)
C9_Witness ==
    /\ pdaPc = "estimated"
    /\ pdaRequest.ports = <<"rotterdam">>
    /\ pdaRequest.vessel_types = <<"vlcc">>
    /\ pdaRequest.cargo_types = <<"Oil">>
    /\ estimates["rotterdam"].total_cost_per_call = 248
    /\ estimates["rotterdam"].vessel_adjustments.size_multiplier = 15

(***************************************************************************)
(* VoyagePlannerAgent.process: specification and properties                *)
(***************************************************************************)
\* process() has been called with a message
ProcessInit ==
    /\ voyageCall \in [message : VoyageMessages, known_ports : PortVocabularies]
    /\ voyageRequest = NoVoyageRequest
    /\ bunker        = NoBunker
    /\ plan          = NoPlan
    /\ voyageResult  = NoVoyageResult
    /\ voyagePc      = "received"
    /\ ChatIdle
    /\ AisIdle
    /\ DocIdle
    /\ CargoIdle
    /\ CacheIdle
    /\ PdaIdle
    /\ PortIdle
    /\ MarketIdle

ProcessNext ==
    \E ext \in ExtractorOutcomes, b \in BunkerOutcomes, w \in WeatherOutcomes :
        Process(ext, b, w)

SpecProcess == ProcessInit /\ [][ProcessNext]_vars

\* the ports resolved for the call: those of the extractor and, when they
\* are fewer than two, those of the first text pattern that matches
ResolvedPorts ==
    ParsedPorts(voyageCall.message,
                extract_entities(voyageCall.message, voyageCall.known_ports))

\* C12: process never returns a partial or zero-filled plan: with fewer than
\* two resolved ports the result is 'clarification_needed' with the list of
\* required fields and neither routes nor costs; a 'success' result has a
\* non-empty routes list, the primary route first, and a full cost breakdown.
C12_NoPartialPlan ==
    voyagePc = "returned" =>
        /\ (Len(ResolvedPorts) < 2 /\ voyageResult.status # "error"
            => /\ voyageResult.status = "clarification_needed"
               /\ voyageResult.required_info # <<>>
               /\ voyageResult.data.routes = <<>>
               /\ voyageResult.data = NoPlan)
        /\ (voyageResult.status = "success"
            => /\ Len(ResolvedPorts) >= 2
               /\ voyageResult.data.routes # <<>>
               /\ voyageResult.data.routes[1].type = "primary"
               /\ \A i \in 2..Len(voyageResult.data.routes) :
                     voyageResult.data.routes[i].type # "primary"
               /\ voyageResult.data.costs.port_charges = 1500000
               /\ voyageResult.data.costs.other_costs = 1000000
               /\ voyageResult.data.costs.crew_cost > 0
               /\ voyageResult.data.costs.fuel_cost > 0
               /\ voyageResult.data.costs.total_cost
                    >= voyageResult.data.costs.canal_fees + 2500000)
        /\ voyageResult.status \in {"success", "clarification_needed", "error"}

\* a message naming one port only is answered with a clarification
C12_Witness ==
    /\ voyagePc = "returned"
    /\ voyageCall.message = << "to", "houston" >>
    /\ voyageCall.known_ports = {}
    /\ ResolvedPorts = << "houston" >>
    /\ voyageResult.status = "clarification_needed"
    /\ voyageResult.data = NoPlan

(***************************************************************************)
(* /api/chat and the cargo matcher side by side                            *)
(***************************************************************************)
\* either a chat request or a parsed cargo request is pending
ChatCargoInit == ChatInit \/ CargoInit

ChatCargoNext == ChatNext \/ CargoNext

SpecChatCargo == ChatCargoInit /\ [][ChatCargoNext]_vars

\* C13: a missing mandatory input is surfaced as 'clarification_needed',
\* never as 'success' or 'error': the cargo matcher answers a request without
\* cargo type with 'clarification_needed' and the missing fields, and the
\* voyage_planning branch of /api/chat answers 'clarification_needed' when
\* it cannot extract both ports.
C13_MissingInputClarification ==
    /\ (cargoPc = "matched" /\ cargoRequest.cargo_type = "None"
        => /\ cargoResult.status = "clarification_needed"
           /\ cargoResult.required_info # <<>>)
    /\ (branch = "voyage_planning"
          /\ (ChatOrigin(ReqText) = "None" \/ ChatDestination(ReqText) = "None")
        => response.status = "clarification_needed")

(***************************************************************************)
(* The port intelligence agent: specification and properties               *)
(***************************************************************************)
\* a port request has been parsed
PortInit ==
    /\ portRequest \in PortRequests
    /\ portResult = NoPortResult
    /\ portPc     = "parsed"
    /\ ChatIdle
    /\ AisIdle
    /\ DocIdle
    /\ CargoIdle
    /\ CacheIdle
    /\ VoyageIdle
    /\ PdaIdle
    /\ MarketIdle

PortNext == \E failing \in SUBSET PortQueryNames : PortProcess(failing)

SpecPort == PortInit /\ [][PortNext]_vars

\* the per-port sections of the returned intelligence that were produced
ProducedSections ==
    LET i == portResult.intelligence
    IN  { sec \in { i.bunker_analysis, i.facilities_analysis, i.fee_analysis,
                    i.restrictions_analysis } : DOMAIN sec # {} }

\* the port table as the claim names it
InStaticTable(port) ==
    LowerQuery(port) \in { "singapore", "rotterdam", "shanghai", "houston", "fujairah" }

\* C16: for every list of requested ports, each port outside the static
\* table yields an explicit not-found sub-result for that port only, every
\* known port of the same request gets its full sub-result, and the overall
\* status is 'success'.
C16_PortBatchPartialFailure ==
    portPc = "returned" =>
        /\ portResult.status = "success"
        /\ \A port \in RangeOf(portRequest.ports) :
              LET details == portResult.intelligence.port_details[port]
              IN  /\ (~InStaticTable(port) =>
                        /\ details = [status |-> "not_found"]
                        /\ \A sec \in ProducedSections :
                              sec[port] = [status |-> "port_not_found"])
                  /\ (InStaticTable(port) =>
                        /\ "status" \notin DOMAIN details
                        /\ details.country # ""
                        /\ \A sec \in ProducedSections :
                              /\ "status" \notin DOMAIN sec[port]
                              /\ DOMAIN sec[port] # {})
        /\ \A sec \in ProducedSections : DOMAIN sec = RangeOf(portRequest.ports)

\* a batch with one unknown and one known port, every section produced
C16_Witness ==
    /\ portPc = "returned"
    /\ portRequest.ports = << "atlantis", "Rotterdam" >>
    /\ Cardinality(ProducedSections) = 4
    /\ portResult.intelligence.fee_analysis["atlantis"] = [status |-> "port_not_found"]
    /\ portResult.intelligence.fee_analysis["Rotterdam"].fee_level = "High"
    /\ portResult.intelligence.port_details["Rotterdam"].country = "Netherlands"

(***************************************************************************)
(* The market insights agent: specification and properties                 *)
(***************************************************************************)
\* the agent as constructed, before any call
MarketInit ==
    /\ marketRequest = NoMarketRequest
    /\ marketResult  = NoMarketResult
    /\ freight_benchmarks = FreightBenchmarks
    /\ marketPc = "ready"
    /\ ChatIdle
    /\ AisIdle
    /\ DocIdle
    /\ CargoIdle
    /\ CacheIdle
    /\ VoyageIdle
    /\ PdaIdle
    /\ PortIdle

\* a call in which the extractor answers, and one in which it raises before
\* the request is parsed
MarketNext ==
    \/ \E req \in MarketRequests, b \in BunkerOutcomes : MarketProcess(req, "ok", b)
    \/ MarketProcess(NoMarketRequest, "raise", NoBunker)

SpecMarket == MarketInit /\ [][MarketNext]_vars

\* C17: the static reference tables keep the contents they were built with
\* in every reachable state; of the tables the claim lists, freight_benchmarks
\* is the one an operation holds a reference to while writing
C17_StaticTablesNeverMutated ==
    /\ DOMAIN freight_benchmarks = { "panamax", "capesize", "supramax", "handysize" }
    /\ \A k \in DOMAIN freight_benchmarks : freight_benchmarks[k] = FreightBenchmarks[k]

(***************************************************************************)
(* Optional external sources: specification and properties                 *)
(***************************************************************************)
ResilienceInit == ProcessInit \/ CargoInit \/ MarketInit \/ PortInit

ResilienceNext == ProcessNext \/ CargoNext \/ MarketNext \/ PortNext

SpecResilience == ResilienceInit /\ [][ResilienceNext]_vars

\* the bunker source answering with the default price
DefaultBunker == [kind |-> "price", current_price |-> 500]

\* the recommendations that depend on the weather
WeatherRecommendations(recs) ==
    { i \in DOMAIN recs : recs[i].kind \in { "high_waves", "favorable_sea" } }

\* C14: a failing optional source never aborts a calculation.  When the
\* bunker source raises, the voyage planner and the cargo matcher still
\* answer 'success' with costs computed at the default price of 500, the
\* market and port agents answer 'success' with only the bunker sub-field
\* marked unavailable; when the weather source raises, the plan is returned
\* with the weather marked as an error and no weather recommendation.
C14_OptionalSourceFailure ==
    /\ (voyagePc = "returned" /\ bunker.kind = "raise") =>
          /\ voyageResult.status = "success"
          /\ voyageResult.data.routes # <<>>
          /\ voyageResult.data.costs =
                calculate_voyage_costs(voyageResult.data.routes[1],
                                       voyageResult.data.vessel, DefaultBunker)
    /\ (voyagePc = "returned" /\ voyageResult.data.weather.kind = "error") =>
          /\ voyageResult.status = "success"
          /\ voyageResult.data.routes # <<>>
          /\ voyageResult.data.costs.total_cost > 0
          /\ WeatherRecommendations(voyageResult.data.recommendations) = {}
    /\ (cargoPc = "matched" /\ bunker.kind = "raise") =>
          /\ cargoResult.status = "success"
          /\ ~cargoResult.profitability.error
          /\ cargoResult.profitability.fuel_cost_per_day * 1000
                = Dwt(matches[1].vessel_type) * 500
          /\ cargoResult.profitability.total_costs
                = cargoResult.profitability.fuel_cost_per_day + 15000 + 5000
    /\ (marketResult.status \in { "success", "error" }) =>
          /\ marketResult.status = "error" => marketResult.error = "extractor failure"
          /\ (marketResult.status = "success"
                /\ "bunker_prices" \in marketResult.insights.keys
                /\ bunker.kind = "raise") =>
                /\ marketResult.insights.bunker_prices.error = "Bunker data unavailable"
                /\ marketResult.insights.keys = InsightKeys(marketRequest)
                /\ [marketResult.insights EXCEPT !.bunker_prices = NoBunkerInsights]
                     = [generate_market_insights(marketRequest, DefaultBunker, freight_benchmarks)
                          EXCEPT !.bunker_prices = NoBunkerInsights]
    /\ portPc = "returned" =>
          /\ portResult.status = "success"
          /\ \A port \in DOMAIN portResult.intelligence.bunker_analysis :
                LET got   == portResult.intelligence.bunker_analysis[port]
                    clean == get_bunker_analysis(portRequest.ports, {})[port]
                IN  got # clean =>
                       /\ got.prices = "Price data unavailable"
                       /\ [got EXCEPT !.prices = clean.prices] = clean
          /\ [portResult.intelligence EXCEPT !.bunker_analysis = NoSection]
                = [generate_port_intelligence(portRequest, {})
                     EXCEPT !.bunker_analysis = NoSection]

\* the bunker source raised and the voyage planner answered with the costs
\* of the default price
C14_Witness ==
    /\ voyagePc = "returned"
    /\ bunker.kind = "raise"
    /\ voyageResult.status = "success"
    /\ voyageResult.data.weather.kind = "error"
    /\ voyageResult.data.costs.fuel_cost > 0

\* the bunker source raised and the cargo matcher answered with a result
C14_WitnessCargo ==
    /\ cargoPc = "matched"
    /\ bunker.kind = "raise"
    /\ cargoResult.profitability.fuel_cost_per_day > 0

\* the bunker source raised and the market agent marked the sub-field
C14_WitnessMarket ==
    /\ marketResult.status = "success"
    /\ bunker.kind = "raise"
    /\ marketResult.insights.bunker_prices.error = "Bunker data unavailable"
    /\ "commentary" \in DOMAIN marketResult.insights.freight_rates

\* the bunker source raised for one port of a batch of two known ports
C14_WitnessPort ==
    /\ portPc = "returned"
    /\ portRequest.ports = << "singapore", "Rotterdam" >>
    /\ portResult.intelligence.bunker_analysis["singapore"].prices = "Price data unavailable"
    /\ portResult.intelligence.bunker_analysis["Rotterdam"].prices = "bunker data"

(***************************************************************************)
(* Further properties of classify_intent and /api/chat                     *)
(***************************************************************************)
\* C21: every confidence returned by classify_intent or carried in a
\* response of /api/chat, the error envelope and the forced document
\* analysis included, lies in [0, 1] (0..100 hundredths), for every message
\* and every context.
C21_ConfidenceInUnitInterval ==
    Answered =>
        /\ classified.confidence \in 0..100
        /\ response.confidence \in 0..100
        /\ classify_intent(request.message, ReqAgent).confidence \in 0..100

\* the error envelope, with confidence 0, for a request classified with 0.95
C21_Witness ==
    /\ branch = "error"
    /\ response.status = "error"
    /\ response.confidence = 0
    /\ classified.confidence = 95

\* the known ports a lower-cased message names, in the order of the text,
\* each once
RECURSIVE TextPorts(_, _)
TextPorts(message_lower, seen) ==
    IF message_lower = <<>> THEN <<>>
    ELSE LET named == { p \in RangeOf(ChatPorts) \ seen : AnyIn({p}, << Head(message_lower) >>) }
         IN  IF named = {} THEN TextPorts(Tail(message_lower), seen)
             ELSE << CHOOSE p \in named : TRUE >>
                  \o TextPorts(Tail(message_lower), seen \cup named)

\* C22: for a voyage_planning request whose message names two known ports,
\* the planned origin is the port the message mentions first and the
\* destination the port it mentions second.
C22_PortsInTextOrder ==
    (branch = "voyage_planning" /\ response.status = "success"
       /\ Len(TextPorts(ReqText, {})) = 2) =>
        response.entities = << Title(TextPorts(ReqText, {})[1]),
                               Title(TextPorts(ReqText, {})[2]) >>

\* the follow-up messages of a session: one word each
FollowUps == { << w >> : w \in Vocabulary }

\* a session: the first request with any context, then requests that echo
\* the context of the last response
SessionNext ==
    \/ ChatNext
    \/ \E message \in FollowUps : NextRequest(message)

SpecSession == ChatInit /\ [][SessionNext]_vars

\* C23: every response returns the request's conversation_context; with a
\* current_agent that is none of the four specialized names classify_intent
\* never returns a specialized intent and no specialized handler answers;
\* and the context of a session never changes, so a session that starts
\* with current_agent 'general' never reaches one of the four handlers.
C23_SpecializedOnlyBySticky ==
    /\ [](Answered =>
            /\ response.conversation_context = request.conversation_context
            /\ (ReqAgent \notin SpecializedAgents =>
                   /\ classified.intent \notin SpecializedAgents
                   /\ branch \notin SpecializedAgents
                   /\ response.agent \notin { DisplayName(a) : a \in SpecializedAgents }))
    /\ [][request'.conversation_context = request.conversation_context]_vars

\* a request of a session with current_agent 'general' that holds a cargo
\* keyword and is answered by the router, with the context unchanged
C23_Witness ==
    /\ Answered
    /\ request.conversation_context = [current_agent |-> "general"]
    /\ request.message = << "cargo" >>
    /\ classified.intent = "general"
    /\ response.agent = "Captain Router"
    /\ response.conversation_context = [current_agent |-> "general"]

\* C24: the forced document analysis of the fallback branch is unreachable:
\* a message classified 'general' holds none of the fallback's document
\* keywords, so every response with intent 'general' comes from the router
\* and the fallback branch never answers as 'Document Analyst'.
C24_ForcedDocumentUnreachable ==
    Answered =>
        /\ (classified.intent = "general" =>
               /\ ~AnyIn(FallbackDocumentWords, ReqText)
               /\ branch = "fallback")
        /\ (response.intent = "general" => response.agent = "Captain Router")
        /\ (branch = "fallback" =>
               /\ response.agent = "Captain Router"
               /\ response.intent = "general")

\* a message without any keyword, answered by the router as 'general'
C24_Witness ==
    /\ branch = "fallback"
    /\ request.message = << "hello", "hello" >>
    /\ classified = [intent |-> "general", confidence |-> 50]
    /\ response.agent = "Captain Router"
    /\ response.intent = "general"

(***************************************************************************)
(* Further properties of the cargo matcher                                 *)
(***************************************************************************)
\* C25: for every eligible vessel, cargo and quantity the accumulated score
\* lies in [40, 90], so the final clamp to [0, 100] never changes it.
C25_ScoreWithinClamp ==
    /\ \A v \in VesselTypes :
          (cargoRequest.cargo_type # "None"
             /\ can_carry_cargo(v, cargoRequest.cargo_type, cargoRequest.quantity)) =>
             /\ RawScore(v, cargoRequest.cargo_type, cargoRequest.quantity) \in 40..90
             /\ calculate_match_score(v, cargoRequest.cargo_type, cargoRequest.quantity)
                  = RawScore(v, cargoRequest.cargo_type, cargoRequest.quantity)
    /\ cargoPc = "matched" =>
          \A i \in DOMAIN matches :
              /\ matches[i].match_score \in 40..90
              /\ matches[i].match_score
                   = RawScore(matches[i].vessel_type, cargoRequest.cargo_type,
                              cargoRequest.quantity)

\* a full VLCC of LNG: the over-utilization penalty gives the least score
C25_Witness ==
    /\ cargoPc = "matched"
    /\ cargoRequest = [cargo_type |-> "lng", quantity |-> 300000]
    /\ Len(matches) = 1
    /\ matches[1].vessel_type = "vlcc"
    /\ matches[1].match_score = 40

(***************************************************************************)
(* Further properties of the caches                                        *)
(***************************************************************************)
\* C28: only successful results are cached: no entry of the weather or the
\* LLM cache holds an error-shaped value or None, so no call served from
\* the cache returns one.
C28_OnlySuccessCached ==
    /\ \A c \in CacheNames, k \in CacheKeys :
          cache[c][k] # NoEntry => cache[c][k].data.kind = "ok"
    /\ \A r \in CallIds :
          (calls[r].pc = "done" /\ ~calls[r].called) => calls[r].result.kind = "ok"

(***************************************************************************)
(* The AIS update loop: specifications and properties                      *)
(***************************************************************************)
AisInit ==
    /\ AisIdle
    /\ DocIdle
    /\ ChatIdle
    /\ CargoIdle
    /\ CacheIdle
    /\ VoyageIdle
    /\ PdaIdle
    /\ PortIdle
    /\ MarketIdle

AisNext ==
    \/ \E l \in LoopIds : start_continuous_updates(l)
    \/ \E l \in LoopIds : Wake(l)
    \/ stop_continuous_updates

SpecAIS == AisInit /\ [][AisNext]_vars

\* every sleep ends
SpecAISLive == SpecAIS /\ \A l \in LoopIds : WF_vars(Wake(l))

\* C26: at most one continuous-update loop is running at any time, under
\* every interleaving of start_continuous_updates and
\* stop_continuous_updates, also when a stop is followed by a start while
\* the earlier loop is suspended in its sleep.
C26_AtMostOneLoop ==
    Cardinality(RunningLoops) <= 1

\* two loops have both made an update after the second one was started
C26_TwoLoopsUpdating ==
    /\ is_updating
    /\ loopPc[1] = "sleeping" /\ loopPc[2] = "sleeping"
    /\ rounds[1] = 2 /\ rounds[2] = 2

\* the second half of C26: when the flag stays cleared, every loop returns
C26_StoppedLoopsTerminate ==
    (<>[](~is_updating)) => <>[](RunningLoops = {})

(***************************************************************************)
(* The document analyzer: specification and properties                     *)
(***************************************************************************)
DocInit ==
    /\ DocIdle
    /\ AisIdle
    /\ ChatIdle
    /\ CargoIdle
    /\ CacheIdle
    /\ VoyageIdle
    /\ PdaIdle
    /\ PortIdle
    /\ MarketIdle

DocNext ==
    \/ \E doc_id \in DocIds, content \in DocContents, doc_type \in DocTypes :
          add_document(doc_id, content, doc_type)
    \/ \E query \in Queries, doc_id \in DocIds \cup {"None", UnknownDocId} :
          analyze_document(query, doc_id)

SpecDocs == DocInit /\ [][DocNext]_vars

\* the last call was analyze_document
Analyzed == docCall.op = "analyze_document"

\* the doc_id the last analyze_document call was about
AnalyzedId ==
    IF docCall.doc_id = "None" /\ documents # <<>> THEN documents[1].doc_id
    ELSE docCall.doc_id

\* C27: analyze_document returns an analysis whose document_info (type,
\* uploaded_at, content_length) describes the document now stored under
\* doc_id, never a replaced one, and so does every cached analysis; with no
\* documents or an unknown doc_id it returns an error value and caches
\* nothing.
C27_NoStaleAnalysis ==
    /\ [](Analyzed =>
            IF documents = <<>> \/ AnalyzedId \notin StoredIds
            THEN docResult.type = "error"
            ELSE \E i \in DOMAIN documents :
                    /\ documents[i].doc_id = AnalyzedId
                    /\ docResult.type = "comprehensive_document_analysis"
                    /\ docResult.document_info =
                          [document_id |-> AnalyzedId,
                           type |-> documents[i].type,
                           uploaded_at |-> documents[i].uploaded_at,
                           content_length |-> Len(documents[i].content)])
    /\ [](\A key \in DOMAIN analysis_cache :
            \E i \in DOMAIN documents :
                /\ documents[i].doc_id = key[1]
                /\ analysis_cache[key].document_info.document_id = key[1]
                /\ analysis_cache[key].document_info.type = documents[i].type
                /\ analysis_cache[key].document_info.uploaded_at = documents[i].uploaded_at
                /\ analysis_cache[key].document_info.content_length
                     = Len(documents[i].content))
    /\ [][ (docCall'.op = "analyze_document" /\ docResult'.type = "error")
              => analysis_cache' = analysis_cache ]_vars

\* a document was replaced by one of another type and length, analysed
\* again with a query asked before, and the analysis describes the new one
C27_Witness ==
    /\ Analyzed
    /\ docCall.doc_id = "sample_charter"
    /\ Len(documents) = 1
    /\ documents[1] = [doc_id |-> "sample_charter", content |-> <<"freight", "rate">>,
                       type |-> "Bill of Lading", uploaded_at |-> 2]
    /\ docResult.document_info = [document_id |-> "sample_charter",
                                  type |-> "Bill of Lading", uploaded_at |-> 2,
                                  content_length |-> 2]
    /\ DOMAIN analysis_cache = { AnalysisKey("sample_charter", "q1") }

(***************************************************************************)
(* Further properties of the port comparison                               *)
(***************************************************************************)
\* C29: the port named by "Best bunkering" is a port of the static table
\* whose bunker_available is true, the port named by "Deepest draft" is a
\* known port with the greatest max_draft among the known requested ports,
\* and a requested port that is not in the table is never recommended.
C29_RecommendedPortsKnown ==
    portPc = "returned" =>
        LET recs == portResult.intelligence.port_comparison.recommendations
        IN  \A i \in DOMAIN recs :
                /\ InStaticTable(recs[i].port)
                /\ recs[i].kind = "Best bunkering" =>
                      PortTable(LowerQuery(recs[i].port)).bunker_available
                /\ recs[i].kind = "Deepest draft" =>
                      \A q \in RangeOf(portRequest.ports) :
                          InStaticTable(q) =>
                              PortTable(LowerQuery(q)).max_draft
                                 <= PortTable(LowerQuery(recs[i].port)).max_draft

(***************************************************************************)
(* Further properties of the voyage request parser                         *)
(***************************************************************************)
\* the places where the message reads "from X to Y", X and Y words
FromToForms(message) ==
    { i \in DOMAIN message :
        /\ i + 3 <= Len(message)
        /\ message[i] = "from" /\ message[i + 2] = "to"
        /\ IsWord(message[i + 1]) /\ message[i + 1] \notin {"from", "to"}
        /\ IsWord(message[i + 3]) /\ message[i + 3] \notin {"from", "to"} }

\* C30: when the entity extractor returns fewer than two ports and the
\* message has the form "... from X to Y ...", _parse_voyage_request returns
\* a request with origin X and destination Y, not None, so process() does
\* not ask for clarification.
C30_FromToInferred ==
    LET message  == voyageCall.message
        entities == extract_entities(message, voyageCall.known_ports)
        parsed   == parse_voyage_request(message, entities)
    IN  (voyagePc = "returned" /\ voyageResult.status # "error"
           /\ Len(entities.ports) < 2 /\ FromToForms(message) # {}) =>
            /\ parsed.ok
            /\ voyageResult.status = "success"
            /\ \E i \in FromToForms(message) :
                  /\ voyageRequest.origin = message[i + 1]
                  /\ voyageRequest.destination = message[i + 3]

====
